---- MODULE Spec2Model ----
(***************************************************************************)
(* State-machine model of WindscribeClient (src/src/WindscribeClient.ts):  *)
(* the session lock, the cached session cookie and port, login(), the      *)
(* account-page CSRF retrieval with its forced relogin, and updatePort();  *)
(* and of update() (src/src/index.ts), which hands the port to the torrent *)
(* client.                                                                 *)
(* Every answer of an external collaborator (anti-bot solver, provider     *)
(* pages and endpoints) is an input chosen by the environment.             *)
(***************************************************************************)
EXTENDS Integers, Sequences, FiniteSets, TLC

(* ------------------------------ bounds -------------------------------- *)
\* concurrent callers of getSession()
NumProcs == 2
\* clock ticks of TickMs the model lets pass
MaxTicks == 1
\* distinct non-zero lease start epochs (seconds) the provider reports
MaxLease == 2
\* history counters saturate here
MaxCount == 3

Procs == 1..NumProcs
LeaseStarts == 1..MaxLease

\* Opaque values: the code stores, returns and compares them for equality and
\* nothing else, so two of each show every case.
\* session-cookie values the provider hands out
CookieValues == {1, 2}
\* port numbers the provider reports
Ports == {10583, 10011}
\* CSRF tokens the account page embeds
CsrfTokens == {1, 2}

(* ------------------------- program constants -------------------------- *)
SecondsPerDay == 86400
LeaseDays == 7
MsPerSecond == 1000

\* `undefined` of an integer-valued field (a missing port, token, cookie)
Undefined == 0
\* a Set-Cookie entry without an Expires attribute: cookie.expires is undefined
NoExpires == -1

(* -------------------------------- time -------------------------------- *)
TickMs == MsPerSecond
\* the first instant: the expiry of a lease started at epoch 1
StartTime == (1 + SecondsPerDay * LeaseDays) * MsPerSecond
\* the instants a cookie may expire at: one before the first, and every one reached
Instants == {StartTime + k * TickMs : k \in -1..MaxTicks}

VARIABLES
  now,        \* Date.now(), milliseconds
  cache,      \* the Keyv store: key -> entry
  lockQueue,  \* async-lock queue of key 'getSession'; its head holds the lock
  proc,       \* per caller: position and locals of its updatePort() call
  client,     \* the port the torrent client listens on
  pass,       \* update(): its position and locals
  totp,       \* this.totp != null: a TOTP generator is configured
  solver,     \* solveCaptcha(): its position, its input and its locals
  sign,       \* login(), steps 3 and 4: the token, the generated values, loginData
  sched       \* run(): the cron task, the timers and the runs under way

vars == <<now, cache, lockQueue, proc, client, pass, totp, solver, sign, sched>>

(* ------------------------------- cache -------------------------------- *)
Keys == {"sessionCookie", "port"}
NoEntry == [absent |-> TRUE]
Entry(v, e) == [value |-> v, expires |-> e]

\* mutant of CacheSet: the ttl is taken for the expiry instant
CacheSetTtlAsInstant(c, key, value, ttl, t) == [c EXCEPT ![key] = Entry(value, ttl)]

\* cache.set(key, value, ttl): the entry expires ttl ms from now
CacheSet(c, key, value, ttl, t) == [c EXCEPT ![key] = Entry(value, t + ttl)]

\* mutant of CacheDelete: the entry stays
CacheDeleteKeeps(c, key) == c

\* cache.delete(key)
CacheDelete(c, key) == [c EXCEPT ![key] = NoEntry]

\* mutant of CacheGetRaw: an entry is dropped at its expiry instant already
CacheGetRawEarly(c, key, t) ==
  IF c[key] = NoEntry \/ t >= c[key].expires THEN NoEntry ELSE c[key]

\* cache.get(key): the entry unless absent or past its expiry
CacheGetRaw(c, key, t) ==
  IF c[key] = NoEntry \/ t > c[key].expires THEN NoEntry ELSE c[key]

\* cache.get(key): the value, Undefined when there is no live entry
CacheGet(c, key, t) ==
  IF CacheGetRaw(c, key, t) = NoEntry THEN Undefined ELSE CacheGetRaw(c, key, t).value

(* --------------------------- number <-> text -------------------------- *)
RECURSIVE Digits(_)
\* Number.prototype.toString() of a non-negative integer, as its decimal digits
Digits(n) == IF n < 10 THEN <<n>> ELSE Append(Digits(n \div 10), n % 10)

RECURSIVE ParseDigits(_)
\* parseInt() of a digit string
ParseDigits(s) ==
  IF Len(s) = 0 THEN 0
  ELSE ParseDigits(SubSeq(s, 1, Len(s) - 1)) * 10 + s[Len(s)]

(* ----------------------------- per caller ----------------------------- *)
Inc(n) == IF n < MaxCount THEN n + 1 ELSE MaxCount

NoInfo == [epfExpires |-> 0, ports |-> <<>>]
\* no response: the awaited request has not settled (yet)
NoData == [absent |-> TRUE]
\* a page in which the expected script variables are not found
Unparsable == [parsed |-> FALSE]
\* the account page answered with a 302
Redirect == [status |-> 302]
\* the awaited request rejected: no answer, or a status validateStatus refuses
RequestError == [failed |-> TRUE]
\* a create response without the epf member
NoEpf == [absent |-> TRUE]
NoRet == [port |-> Undefined, expires |-> 0]

Blank ==
  [ pc |-> "idle",          \* where the call stands
    op |-> "none",          \* the method that is inside getSession()
    forceLogin |-> FALSE,   \* forceLogin of the current getMyAccountCsrfToken/getSession
    captcha |-> FALSE,      \* login(): captchaSolution != null
    loginForm |-> {},       \* login(): loginFormData, while the form is with the provider
    sessionCookie |-> Undefined,  \* what getSession() resolved to
    csrfToken |-> Undefined,      \* CsrfInfo of step 1: csrfToken
    csrfTime |-> Undefined,       \* and csrfTime
    info |-> NoInfo,        \* portForwardingInfo
    ret |-> NoRet,          \* what updatePort() resolved to
    error |-> "",           \* what updatePort() rejected with: the context of the
                            \* method that failed
    message |-> <<>>,       \* and the messages wrapped inside it, outermost first
    res |-> NoData,         \* res of the request last answered, until the next
                            \* getSession() call goes on
    \* history of the current updatePort() call
    status |-> NoInfo,      \* the state as read from the status page
    epf |-> NoInfo,         \* the state as answered by the create endpoint
    gsLogin |-> FALSE,      \* the current getSession() call ran login()
    seen |-> NoEntry,       \* the cookie another caller's login() stored during this
                            \* getSession(false) call, if not evicted since
    shared |-> Undefined,   \* its value, when it had not expired as this call resolved
    forced |-> 0,           \* getSession(true) calls
    acctReqs |-> 0,         \* GET /myaccount
    statusReqs |-> 0,       \* GET /staticips/load
    deletes |-> 0,          \* POST /staticips/deleteEphPort
    deleted |-> FALSE,      \* the delete request succeeded
    creates |-> 0,          \* POST /staticips/postEphPort
    portSets |-> 0,         \* cache.set('port', ...) calls
    createdFrom |-> NoInfo  \* portForwardingInfo when the create request was sent
  ]

\* solveCaptcha() has not been called
NoCall == [pc |-> "idle"]

\* login() has not reached step 3
NoSign == [pc |-> "idle"]

\* run() has not been called
NoRun == [pc |-> "idle"]

(* ------------------------------ update() ----------------------------- *)
\* config.windscribeExtraDelay || (60 * 1000)
WindscribeExtraDelay == 60 * 1000
\* config.windscribeRetryDelay || (60 * 60 * 1000)
WindscribeRetryDelay == 60 * 60 * 1000
\* config.clientRetryDelay || (5 * 60 * 1000)
ClientRetryDelay == 5 * 60 * 1000

\* a Date that is null
NullDate == -1
\* a WindscribePort that is null
NullPort == [port |-> Undefined, expires |-> NullDate]

\* the port the torrent client listens on at first: one leased before
TorrentPort == CHOOSE n \in Ports : TRUE

BlankPass ==
  [ pc |-> "idle",           \* where update() stands
    portInfo |-> NullPort,
    nextRetry |-> NullDate,
    nextRun |-> NullDate,
    currentPort |-> Undefined,
    \* history of the pass
    failed |-> FALSE,        \* windscribe.updatePort() rejected
    cached |-> NoEntry,      \* the live cache entry of the port when it rejected
    outcome |-> "none"       \* what the second try block logged
  ]

Init ==
  /\ now = StartTime
  /\ cache = [k \in Keys |-> NoEntry]
  /\ lockQueue = <<>>
  /\ proc = [p \in Procs |-> Blank]
  /\ client = TorrentPort
  /\ pass = BlankPass
  /\ totp = FALSE
  /\ sign = NoSign
  /\ sched = NoRun
  /\ solver = NoCall


(* ------------------------- the session lock --------------------------- *)
\* mutant of HoldsLock: fn runs at once, whoever else is running
HoldsLockAlways(q, p) == TRUE

\* lock.acquire('getSession', fn): fn runs once every earlier fn has settled
HoldsLock(q, p) == Len(q) > 0 /\ Head(q) = p

\* fn settled: the lock passes to the next in the queue
Release(q, p) == SelectSeq(q, LAMBDA x : x # p)

\* the request each method sends once getSession() has resolved
RequestPc(o) ==
  CASE o = "csrf" -> "csrf_get"
    [] o = "info" -> "info_get"
    [] o = "remove" -> "remove_post"
    [] o = "request" -> "request_post"
    [] OTHER -> "returned"

\* mutant of ErrorOf: the catch block of removeEphemeralPort carries the message
\* of getPortForwardingInfo
ErrorOfCopied(o) ==
  CASE o = "csrf" -> "Failed to get csrf token from my account page"
    [] o = "info" -> "Failed to get port forwarding info"
    [] o = "remove" -> "Failed to get port forwarding info"
    [] o = "request" -> "Failed to request matching ephemeral port"
    [] OTHER -> "TypeError"

\* the context each method's catch block puts before the error message
ErrorOf(o) ==
  CASE o = "csrf" -> "Failed to get csrf token from my account page"
    [] o = "info" -> "Failed to get port forwarding info"
    [] o = "remove" -> "Failed to delete ephemeral port"
    [] o = "request" -> "Failed to request matching ephemeral port"
    [] OTHER -> "TypeError"

\* a method calls getSession(f): the callback is queued on the lock
CallGetSession(p, s, o, f, c) ==
  /\ lockQueue' = Append(lockQueue, p)
  /\ cache' = c
  /\ proc' = [proc EXCEPT ![p] =
       [s EXCEPT !.pc = "gs_wait", !.op = o, !.forceLogin = f,
                 !.sessionCookie = Undefined, !.gsLogin = FALSE,
                 !.seen = NoEntry, !.shared = Undefined,
                 !.forced = IF f THEN Inc(@) ELSE @]]

\* the locals of a method and of its getSession() call, once the method is over
Over(s) == [s EXCEPT !.sessionCookie = Undefined, !.gsLogin = FALSE,
                     !.captcha = FALSE, !.csrfToken = Undefined,
                     !.csrfTime = Undefined]

\* mutant of Fail: the method tries again after a forced login, as the CSRF
\* retrieval does on a redirect
FailRetries(p, s, o) ==
  /\ lockQueue' = Append(lockQueue, p)
  /\ cache' = cache
  /\ proc' = [proc EXCEPT ![p] =
       [s EXCEPT !.pc = "gs_wait", !.op = o, !.forceLogin = TRUE, !.forced = Inc(@)]]

\* the method's request or parsing failed: its catch rethrows, updatePort() rejects
Fail(p, s, o) ==
  /\ lockQueue' = lockQueue
  /\ cache' = cache
  /\ proc' = [proc EXCEPT ![p] =
       [Over(s) EXCEPT !.pc = "failed", !.error = ErrorOf(o)]]

\* the positions inside login()
LoginPcs == {"login_flare", "login_auth", "login_captcha", "login_post"}

\* caller q is inside a getSession(false) call
InPlainGetSession(q) ==
  proc[q].pc \in {"gs_wait"} \cup LoginPcs /\ ~proc[q].forceLogin

\* history: every other caller inside getSession(false) has seen entry e stored
\* (e = NoEntry: has seen the cookie evicted)
Saw(p, e) ==
  [q \in Procs |->
     IF q # p /\ InPlainGetSession(q) THEN [proc[q] EXCEPT !.seen = e] ELSE proc[q]]

\* getSession() resolves with v: the lock is released, the method sends its request
Resolve(p, s, v, c, pr) ==
  /\ lockQueue' = Release(lockQueue, p)
  /\ cache' = c
  /\ proc' = [pr EXCEPT ![p] =
       [s EXCEPT !.pc = RequestPc(s.op), !.sessionCookie = v, !.captcha = FALSE,
                 !.seen = NoEntry, !.res = NoData,
                 !.shared = IF s.seen # NoEntry /\ now <= s.seen.expires
                            THEN s.seen.value ELSE Undefined]]

\* mutant of Reject: the error leaves the callback without the lock being released
RejectKeepsLock(p, s) ==
  /\ lockQueue' = lockQueue
  /\ cache' = cache
  /\ proc' = [proc EXCEPT ![p] =
       [Over(s) EXCEPT !.pc = "failed", !.error = ErrorOf(s.op), !.seen = NoEntry,
                 !.message = IF s.op = "session" THEN <<>> ELSE @]]

\* getSession() rejects (login() threw, or the cookie has no expiry to read):
\* the lock is released and the error travels up through the method to updatePort();
\* of a bare getSession() call (op "session") only the fact that it rejected is
\* kept, as only the fact that it resolved is
Reject(p, s) ==
  /\ lockQueue' = Release(lockQueue, p)
  /\ cache' = cache
  /\ proc' = [proc EXCEPT ![p] =
       [Over(s) EXCEPT !.pc = "failed", !.error = ErrorOf(s.op), !.seen = NoEntry,
                 !.message = IF s.op = "session" THEN <<>> ELSE @]]

\* login() is entered
StartLogin(s) == [s EXCEPT !.pc = "login_flare", !.captcha = FALSE,
                           !.gsLogin = TRUE, !.res = NoData]

(* ------------------------------ getSession ---------------------------- *)
\* one of the four methods calls getSession(f); what the method then does with the
\* cookie is left out (SessionSpec studies the callers of getSession on their own)
CallSession(p) ==
  /\ proc[p].pc = "idle"
  /\ \E f \in BOOLEAN : CallGetSession(p, Blank, "session", f, cache)
  /\ UNCHANGED now

\* getSession(f) is called by a caller that keeps what it rejects with
CallLogin(p) ==
  /\ proc[p].pc = "idle"
  /\ \E f \in BOOLEAN : CallGetSession(p, Blank, "login", f, cache)
  /\ UNCHANGED now

\* updatePort() is called: getMyAccountCsrfToken() -> getSession(false)
UpdatePort(p) ==
  /\ proc[p].pc = "idle"
  /\ CallGetSession(p, Blank, "csrf", FALSE, cache)
  /\ UNCHANGED now

\* the callback of lock.acquire runs: evict when forced, else look the cookie up
GetSession(p) ==
  /\ proc[p].pc = "gs_wait"
  /\ HoldsLock(lockQueue, p)
  /\ UNCHANGED now
  /\ IF proc[p].forceLogin
     THEN /\ cache' = CacheDelete(cache, "sessionCookie")
          /\ proc' = [Saw(p, NoEntry) EXCEPT ![p] = StartLogin(proc[p])]
          /\ UNCHANGED lockQueue
     ELSE IF CacheGet(cache, "sessionCookie", now) # Undefined
     THEN Resolve(p, proc[p], CacheGet(cache, "sessionCookie", now), cache, proc)
     ELSE /\ proc' = [proc EXCEPT ![p] = StartLogin(@)]
          /\ UNCHANGED <<cache, lockQueue>>

(* ---------------------------- login: texts --------------------------- *)
\* String.prototype.startsWith
StartsWith(s, prefix) ==
  Len(s) >= Len(prefix) /\ SubSeq(s, 1, Len(prefix)) = prefix

\* String.prototype.includes
Includes(s, part) ==
  \E i \in 1..(Len(s) - Len(part) + 1) : SubSeq(s, i, i + Len(part) - 1) = part

\* String.prototype.toLowerCase, on the letters the texts below are made of
ToLowerCase(s) ==
  [i \in 1..Len(s) |->
     CASE s[i] = "F" -> "f" [] s[i] = "A" -> "a" [] s[i] = "B" -> "b" [] OTHER -> s[i]]

\* the names of the cookies the anti-bot solver may hand back
CookieNames == {<<"c", "f", "_", "b">>, <<"c", "f">>, <<"b", "c", "f", "_">>}

\* the answers of the anti-bot solver: data.status and data.solution.cookies
FlareAnswers ==
  [status : {"ok"}, cookies : SUBSET CookieNames]
    \cup [status : {"error"}, cookies : {{}, CookieNames}]
    \cup {RequestError}

\* mutant of FlareError: the cookies are not looked at
FlareErrorStatusOnly(r) ==
  IF r = RequestError THEN "AxiosError"
  ELSE IF r.status # "ok" THEN "FlareSolverr failed for GET /login"
  ELSE ""

\* step 1: what login() throws on the solver's answer, "" when it goes on
FlareError(r) ==
  IF r = RequestError THEN "AxiosError"
  ELSE IF r.status # "ok" THEN "FlareSolverr failed for GET /login"
  ELSE IF ~\E name \in r.cookies : StartsWith(name, <<"c", "f", "_">>)
  THEN "No Cloudflare clearance cookies found in FlareSolverr response"
  ELSE ""

\* the answers to the auth-token request: errorCode, data.token present,
\* data.captcha.background present
AuthAnswers ==
  [errorCode : {0, 1}, token : BOOLEAN, captcha : BOOLEAN] \cup {RequestError}

\* the inner catch: a message that names the auth token error or the CAPTCHA is
\* rethrown as it is, any other is wrapped
AuthCatch(msg, named) ==
  IF named THEN <<msg>> ELSE <<"Failed to fetch auth token", msg>>

\* mutant of AuthError: a response without a token is taken
AuthErrorTakesNoToken(r) ==
  IF r = RequestError THEN AuthCatch("AxiosError", FALSE)
  ELSE IF r.errorCode # 0 THEN AuthCatch("Auth token error", TRUE)
  ELSE <<>>

\* step 2: what login() throws on the auth-token answer, <<>> when it goes on
AuthError(r) ==
  IF r = RequestError THEN AuthCatch("AxiosError", FALSE)
  ELSE IF r.errorCode # 0 THEN AuthCatch("Auth token error", TRUE)
  ELSE IF ~r.token THEN AuthCatch("No token in auth response", FALSE)
  ELSE <<>>

(* ------------------------- generateMouseTrail ------------------------ *)
Min(a, b) == IF a < b THEN a ELSE b
Max(a, b) == IF a > b THEN a ELSE b

\* the least number of samples
MinPoints == 10

\* mutant of NumPoints: one sample for every 8 pixels, however few
NumPointsUnfloored(T) == T \div 8

\* Math.max(10, Math.floor(targetOffset / 8))
NumPoints(T) == Max(MinPoints, T \div 8)

\* Math.round of the fraction a / b, b > 0: the nearest integer, a tie going up
RoundHalfUp(a, b) == (2 * a + b) \div (2 * b)

\* a / b lies halfway between two integers
IsTie(a, b) == (2 * a) % b = 0 /\ (2 * a) % (2 * b) # 0

\* Math.round(targetOffset * easeProgress) for the k-th of n samples, with
\* easeProgress = 1 - (1 - k/n)^2 = k(2n - k) / n^2; where the exact product is
\* a tie, its binary floating-point value may fall on either side of it
TargetX(T, k, n) ==
  {RoundHalfUp(T * k * (2 * n - k), n * n)}
    \cup (IF IsTie(T * k * (2 * n - k), n * n)
          THEN {RoundHalfUp(T * k * (2 * n - k), n * n) - 1} ELSE {})

\* Math.round((Math.random() - 0.5) * 3)
JitterX == {-1, 0, 1}
\* Math.round((Math.random() - 0.5) * 8)
JitterY == -4..4

\* mutant of Clamp: the sample is not held below the target offset
ClampFromBelow(T, v) == Max(0, v)

\* Math.max(0, Math.min(targetOffset, v))
Clamp(T, v) == Max(0, Min(T, v))

\* the trail generateMouseTrail(T) returns when every jitter is 0
SmoothTrail(T) ==
  [x |-> [k \in 1..NumPoints(T) |->
            IF k = NumPoints(T) THEN T
            ELSE Clamp(T, RoundHalfUp(T * k * (2 * NumPoints(T) - k),
                                      NumPoints(T) * NumPoints(T)))],
   y |-> [k \in 1..NumPoints(T) |-> 0]]

\* an array of samples: how many it holds and the one pushed last; the samples
\* in between are not kept, as no sample is computed from another
NoSamples == [length |-> 0, last |-> 0]
Push(a, v) == [length |-> a.length + 1, last |-> v]
\* mutant of SetLast: the last sample is left as the loop pushed it
SetLastKeeps(a, v) == a

\* a[a.length - 1] = v
SetLast(a, v) == IF a.length = 0 THEN a ELSE [a EXCEPT !.last = v]

\* generateMouseTrail(T) is entered: the arrays are empty, the loop is at i = 0;
\* first is x[0]
TrailCall(T) ==
  [pc |-> "trail", targetOffset |-> T, numPoints |-> NumPoints(T), i |-> 0,
   x |-> NoSamples, y |-> NoSamples, first |-> 0, history |-> NoData]

\* one turn of the loop: the sample of progress (i + 1) / numPoints is pushed
TrailSample ==
  /\ solver.pc = "trail"
  /\ solver.i < solver.numPoints
  /\ \E targetX \in TargetX(solver.targetOffset, solver.i + 1, solver.numPoints),
        jitterX \in JitterX, jitterY \in JitterY :
       LET currentX == Clamp(solver.targetOffset, targetX + jitterX)
       IN solver' = [solver EXCEPT !.i = @ + 1,
                                   !.x = Push(@, currentX),
                                   !.y = Push(@, jitterY),
                                   !.first = IF solver.i = 0 THEN currentX ELSE @]
  /\ UNCHANGED <<now, cache, lockQueue, proc, client, pass, totp, sign, sched>>

\* the loop is over: the last sample is set to (targetOffset, 0) and the
\* arrays are returned
TrailReturn ==
  /\ solver.pc = "trail"
  /\ solver.i >= solver.numPoints
  /\ solver' = [solver EXCEPT !.pc = "returned",
                              !.x = SetLast(@, solver.targetOffset),
                              !.y = SetLast(@, 0),
                              !.first = IF solver.x.length = 1
                                        THEN solver.targetOffset ELSE @]
  /\ UNCHANGED <<now, cache, lockQueue, proc, client, pass, totp, sign, sched>>

(* ----------------------------- solveCaptcha --------------------------- *)
\* a decoded PNG: its size, the pixels of luminance 255 (the others have 0)
\* and the pixels of alpha 0 (the others have 255)
Png(w, h, lit, clear) == [width |-> w, height |-> h, lit |-> lit, clear |-> clear]

Pixels(img) == (0..(img.width - 1)) \X (0..(img.height - 1))

\* greyscale().raw(): bgPixels[y * bgWidth + x]
Luminance(img, x, y) == IF <<x, y>> \in img.lit THEN 255 ELSE 0

\* ensureAlpha().raw(): sliderRGBA[(y * sliderWidth + x) * 4 + 3]
Alpha(img, x, y) == IF <<x, y>> \in img.clear THEN 0 ELSE 255

\* above it a pixel of the piece counts as part of the piece
AlphaThreshold == 128
\* above it a pixel of the background counts as bright
BrightThreshold == 150
\* the columns at the right of the background that are not searched
RightMargin == 50

Abs(n) == IF n < 0 THEN 0 - n ELSE n
MinOf(S) == CHOOSE n \in S : \A m \in S : n <= m
MaxOf(S) == CHOOSE n \in S : \A m \in S : n >= m

\* the pixels of the piece
Solid(slider) == {q \in Pixels(slider) : Alpha(slider, q[1], q[2]) > AlphaThreshold}

\* the bounding box of the piece, as the first pass leaves it
MinX(slider) == IF Solid(slider) = {} THEN slider.width ELSE MinOf({q[1] : q \in Solid(slider)})
MaxX(slider) == IF Solid(slider) = {} THEN 0 ELSE MaxOf({q[1] : q \in Solid(slider)})
MinY(slider) == IF Solid(slider) = {} THEN slider.height ELSE MinOf({q[2] : q \in Solid(slider)})
MaxY(slider) == IF Solid(slider) = {} THEN 0 ELSE MaxOf({q[2] : q \in Solid(slider)})
PieceWidth(slider) == MaxX(slider) - MinX(slider) + 1
PieceHeight(slider) == MaxY(slider) - MinY(slider) + 1

\* Math.floor(bgWidth * 0.3) and bgWidth - 50: the columns that are searched
SearchColumns(bg) == ((bg.width * 3) \div 10)..(bg.width - RightMargin - 1)

\* Math.min(bgHeight - 1, topOffset + pieceHeight)
ExpectedBottom(bg, slider, top) == Min(bg.height - 1, top + PieceHeight(slider))

\* brightPixels of column x: the bright pixels in the expected vertical range
BrightPixels(bg, slider, top, x) ==
  Cardinality({y \in top..ExpectedBottom(bg, slider, top) :
                 /\ y >= 0 /\ y < bg.height
                 /\ Luminance(bg, x, y) > BrightThreshold})

\* brightPixels > expectedHeight * 0.1
SignificantColumns(bg, slider, top) ==
  {x \in SearchColumns(bg) :
     10 * BrightPixels(bg, slider, top, x) > ExpectedBottom(bg, slider, top) - top}

\* Math.abs(distance - pieceWidth) < pieceWidth * 0.3
CloseTo(distance, pieceWidth) == 10 * Abs(distance - pieceWidth) < 3 * pieceWidth

\* edgePairs: the pairs of significant columns about a piece width apart
EdgePairs(bg, slider, top) ==
  {pr \in SignificantColumns(bg, slider, top) \X SignificantColumns(bg, slider, top) :
     pr[1] < pr[2] /\ CloseTo(pr[2] - pr[1], PieceWidth(slider))}

\* pairScore
PairScore(bg, slider, top, pr) ==
  BrightPixels(bg, slider, top, pr[1]) + BrightPixels(bg, slider, top, pr[2])

\* the pairs were pushed left column first, then right column first
Before(pr, qr) == pr[1] < qr[1] \/ (pr[1] = qr[1] /\ pr[2] <= qr[2])

\* edgePairs.sort((a, b) => b.score - a.score)[0]: the sort is stable, so of
\* the pairs of the highest score the one pushed first
BestPair(bg, slider, top) ==
  CHOOSE pr \in EdgePairs(bg, slider, top) :
    \A qr \in EdgePairs(bg, slider, top) :
      \/ PairScore(bg, slider, top, pr) > PairScore(bg, slider, top, qr)
      \/ PairScore(bg, slider, top, pr) = PairScore(bg, slider, top, qr) /\ Before(pr, qr)

\* bestLeftEdge: the left column of the best pair; without a pair the leftmost
\* significant column; without one, Math.floor(bgWidth * 0.5)
BestLeftEdge(bg, slider, top) ==
  IF EdgePairs(bg, slider, top) # {} THEN BestPair(bg, slider, top)[1]
  ELSE IF SignificantColumns(bg, slider, top) # {}
  THEN MinOf(SignificantColumns(bg, slider, top))
  ELSE bg.width \div 2

\* mutant of FindTargetOutline: the inset of the piece is not taken off
FindTargetOutlineNoInset(bg, slider, top) == BestLeftEdge(bg, slider, top)

\* findTargetOutline(): dragOffset
FindTargetOutline(bg, slider, top) == BestLeftEdge(bg, slider, top) - MinX(slider)

\* the rows searched for the cutout: from Math.max(0, topOffset - 10) up to,
\* not including, Math.min(height, topOffset + 70)
SearchRows(bg, top) == Max(0, top - 10)..(Min(bg.height, top + 70) - 1)

RECURSIVE SumOver(_, _)
\* the sum of f over S
SumOver(f, S) ==
  IF S = {} THEN 0
  ELSE LET a == CHOOSE a \in S : TRUE IN f[a] + SumOver(f, S \ {a})

\* (data[idx] + data[idx + 1] + data[idx + 2]) / 3 of a grey pixel
Brightness(img, x, y) == (3 * Luminance(img, x, y)) \div 3

\* edgeStrength[x]: over the rows searched, the differences of brightness to
\* the left and to the right neighbour; 0 in the first and the last column
EdgeStrength(bg, top, x) ==
  IF x < 1 \/ x > bg.width - 2 THEN 0
  ELSE SumOver([y \in SearchRows(bg, top) |->
                  Abs(Brightness(bg, x, y) - Brightness(bg, x - 1, y))
                    + Abs(Brightness(bg, x, y) - Brightness(bg, x + 1, y))],
               SearchRows(bg, top))

\* what compares as greater than nothing: NaN
NotANumber == -1

\* windowStrength: edgeStrength[x] + edgeStrength[x + 1] + edgeStrength[x + 2],
\* NaN where one of them lies beyond the array
WindowStrength(bg, top, x) ==
  IF x + 2 > bg.width - 1 THEN NotANumber
  ELSE EdgeStrength(bg, top, x) + EdgeStrength(bg, top, x + 1)
         + EdgeStrength(bg, top, x + 2)

\* the columns searched for the cutout: from Math.floor(width * 0.3) up to,
\* not including, Math.floor(width * 0.9)
CutoutColumns(bg) == ((bg.width * 3) \div 10)..(((bg.width * 9) \div 10) - 1)

\* mutant of FindCutoutPosition: every column but the first and the last is searched
FindCutoutPositionAnywhere(bg, top) ==
  LET w == [x \in 1..(bg.width - 3) |-> WindowStrength(bg, top, x)]
  IN IF \A x \in DOMAIN w : w[x] <= 0 THEN bg.width \div 2
     ELSE MinOf({x \in DOMAIN w : \A z \in DOMAIN w : w[x] >= w[z]})

\* findCutoutPosition(): the first column whose window is the strongest; the
\* middle column when no window is stronger than 0
FindCutoutPosition(bg, top) ==
  LET w == [x \in CutoutColumns(bg) |-> WindowStrength(bg, top, x)]
  IN IF \A x \in DOMAIN w : w[x] <= 0 THEN bg.width \div 2
     ELSE MinOf({x \in DOMAIN w : \A z \in DOMAIN w : w[x] >= w[z]})

\* captchaData.slider is undefined, or the empty string
NoSlider == [absent |-> TRUE]
EmptySlider == [text |-> ""]

\* mutant of HasPiece: a slider that is the background counts as a piece
HasPieceWhateverItIs(captchaData) == captchaData.slider \notin {NoSlider, EmptySlider}

\* captchaData.slider && captchaData.slider !== captchaData.background
HasPiece(captchaData) ==
  captchaData.slider \notin {NoSlider, EmptySlider}
    /\ captchaData.slider # captchaData.background

\* the backgrounds: 77 by 2, lit in the columns the outline strategy searches;
\* or lit where the cutout strategy finds and does not find edges; and one of
\* 250 by 2 with an outline at columns 120 and 195
OutlineBackgrounds ==
  {Png(77, 2, lit, {}) : lit \in SUBSET ({23, 24, 26} \X (0..1))}
CutoutBackgrounds ==
  {Png(77, 2, lit, {}) : lit \in SUBSET {<<2, 0>>, <<40, 0>>, <<41, 1>>,
                                          <<68, 0>>, <<70, 1>>, <<75, 0>>}}
WideBackground == Png(250, 2, {120, 195} \X (0..1), {})
Backgrounds == OutlineBackgrounds \cup CutoutBackgrounds \cup {WideBackground}

\* a piece that fills columns a to b of an image of width w and 2 rows
Piece(w, a, b) == Png(w, 2, {}, ((0..(w - 1)) \ (a..b)) \X (0..1))

\* the pieces: of 4 columns, filled from any column to any other, or empty;
\* one of 30 columns filled at its right end; one of 80 columns with an inset of 5
Pieces ==
  {Piece(4, a, b) : a \in 0..3, b \in 0..4}
    \cup {Piece(30, 28, 29), Piece(80, 5, 79)}

\* the vertical positions of the piece
Tops == {0, 1}

\* the challenges: a piece, no piece, or the background sent as the piece
Challenges ==
  {[background |-> bg, slider |-> s, top |-> top] :
     bg \in Backgrounds, s \in Pieces \cup {NoSlider, EmptySlider}, top \in Tops}
    \cup {[background |-> bg, slider |-> bg, top |-> top] :
            bg \in Backgrounds, top \in Tops}

\* solveCaptcha(captchaData) is entered
\* history: NoData, or the challenge under repetition and, of the run before,
\* the offset returned and the first sample of the trail
SolveCall(captchaData) ==
  [pc |-> "solve", captchaData |-> captchaData, history |-> NoData]

\* mutant of Found: the offset is shifted by where the trail before began
FoundAfterTrail(s, strategy, offset) ==
  [pc |-> "offset", captchaData |-> s.captchaData, strategy |-> strategy,
   offset |-> IF s.history # NoData /\ s.history.runs = 1
              THEN offset + s.history.first ELSE offset,
   history |-> s.history]

\* offset is assigned
Found(s, strategy, offset) ==
  [pc |-> "offset", captchaData |-> s.captchaData, strategy |-> strategy,
   offset |-> offset, history |-> s.history]

\* a piece was sent: findSliderOffsetWithTemplate()
FindSliderOffsetWithTemplate ==
  /\ solver.pc = "solve"
  /\ HasPiece(solver.captchaData)
  /\ solver' = Found(solver, "outline",
                     FindTargetOutline(solver.captchaData.background,
                                       solver.captchaData.slider,
                                       solver.captchaData.top))
  /\ UNCHANGED <<now, cache, lockQueue, proc, client, pass, totp, sign, sched>>

\* no piece was sent: findCutoutPosition()
FindCutout ==
  /\ solver.pc = "solve"
  /\ ~HasPiece(solver.captchaData)
  /\ solver' = Found(solver, "cutout",
                     FindCutoutPosition(solver.captchaData.background,
                                        solver.captchaData.top))
  /\ UNCHANGED <<now, cache, lockQueue, proc, client, pass, totp, sign, sched>>

\* generateMouseTrail(offset) is called
GenerateMouseTrail ==
  /\ solver.pc = "offset"
  /\ solver' = [TrailCall(solver.offset) EXCEPT !.history = solver.history]
  /\ UNCHANGED <<now, cache, lockQueue, proc, client, pass, totp, sign, sched>>

(* -------------------------------- login ------------------------------- *)
\* captchaSolution is null
NoSolution == [absent |-> TRUE]

\* the solutions solveCaptcha() may resolve to
Solutions == {[offset |-> T, trail |-> SmoothTrail(T)] : T \in {115}}

\* solveCaptcha() resolves, or throws a message that names the CAPTCHA or not
CaptchaAnswers ==
  [solved : {TRUE}, solution : Solutions] \cup [solved : {FALSE}, named : BOOLEAN]

\* the length of the one-time code
TotpDigits == 6
\* the period of the one-time code, milliseconds
TotpPeriod == 30 * MsPerSecond

\* this.totp.generate(): a code of six digits that depends on the secret and on
\* the number of the period the time falls in; the digits of that number stand
\* for the keyed hash
TotpGenerate(t) ==
  [i \in 1..TotpDigits |-> ((t \div TotpPeriod) \div (10 ^ (TotpDigits - i))) % 10]

\* mutant of LoginData: the one-time code is left out
LoginDataNoCode(configured, solution, t) ==
  [code |-> <<>>,
   captcha_solution |-> IF solution = NoSolution THEN NoData
                        ELSE [value |-> solution.offset],
   captcha_trail |-> IF solution = NoSolution THEN NoData
                     ELSE [x |-> solution.trail.x, y |-> solution.trail.y]]

\* loginData, of its members those that are not always there: code (<<>> when
\* it is not), captcha_solution and captcha_trail
LoginData(configured, solution, t) ==
  [code |-> IF configured THEN TotpGenerate(t) ELSE <<>>,
   captcha_solution |-> IF solution = NoSolution THEN NoData
                        ELSE [value |-> solution.offset],
   captcha_trail |-> IF solution = NoSolution THEN NoData
                     ELSE [x |-> solution.trail.x, y |-> solution.trail.y]]

\* the index pairs of an array under arrayFormat 'indices'
Indexed(a) == {<<i - 1, a[i]>> : i \in 1..Len(a)}

\* qs.stringify(loginData, {arrayFormat: 'indices'}): the keys of the form and
\* what each is sent with; a member that is not there gives no key, and
\* neither does an empty array
Stringify(data) ==
  (IF data.code = <<>> THEN {} ELSE {<<"code", data.code>>})
    \cup (IF data.captcha_solution = NoData THEN {}
          ELSE {<<"captcha_solution", data.captcha_solution.value>>})
    \cup (IF data.captcha_trail = NoData THEN {}
          ELSE {<<"captcha_trail[x]", e>> : e \in Indexed(data.captcha_trail.x)}
                 \cup {<<"captcha_trail[y]", e>> : e \in Indexed(data.captcha_trail.y)})

\* the marker texts of a 200 login page; <<>>: the page has no marker block
MarkerTexts ==
  {<<>>, <<"2", "F", "A">>, <<"b", "2", "f", "a">>, <<"b", "a", "d">>, <<"2", "f">>}

\* a Set-Cookie header: none, one without ws_session_auth_hash, or one with it
NoHeader == [header |-> FALSE]
NoSession == [header |-> TRUE, session |-> FALSE]
SessionCookies == [value : CookieValues, expires : Instants \cup {NoExpires}]

\* the answers to the login form: a 200 page, or a 302 with its headers
LoginAnswers ==
  [status : {200}, text : MarkerTexts,
   setCookie : {NoHeader, [value |-> 1, expires |-> StartTime]}]
    \cup [status : {302}, text : {<<>>},
          setCookie : {NoHeader, NoSession} \cup SessionCookies]
    \cup {RequestError}

\* mutant of Signals2fa: the text is compared as it is written
Signals2faCaseSensitive(text) == Includes(text, <<"2", "f", "a">>)

\* errorText.toLowerCase().includes('2fa')
Signals2fa(text) == Includes(ToLowerCase(text), <<"2", "f", "a">>)

\* mutant of PostError: the status is not looked at
PostErrorAnyStatus(r) ==
  IF r = RequestError THEN "AxiosError"
  ELSE IF r.setCookie = NoHeader THEN "No Set-Cookie header in login response"
  ELSE IF r.setCookie = NoSession
  THEN "Failed to find ws_session_auth_hash in Set-Cookie"
  ELSE ""

\* step 5: what login() throws on the answer to the form, "" when it returns
\* the session cookie
PostError(r) ==
  IF r = RequestError THEN "AxiosError"
  ELSE IF r.status = 200
  THEN IF r.text # <<>>
       THEN IF Signals2fa(r.text) THEN "Windscribe 2FA required"
            ELSE "Windscribe login error"
       ELSE "Received 200 but no expected error message; check response"
  ELSE IF r.setCookie = NoHeader THEN "No Set-Cookie header in login response"
  ELSE IF r.setCookie = NoSession
  THEN "Failed to find ws_session_auth_hash in Set-Cookie"
  ELSE ""

\* the outer catch of login()
LoginError(msgs) == <<"Failed to log into windscribe">> \o msgs

\* the success member of a response: 0, 1, or not there
SuccessFlags == {"0", "1", "absent"}

\* the answers of the delete endpoint: res.data
DeleteAnswers == [success : SuccessFlags, epf : BOOLEAN] \cup {RequestError}

\* the epf members a create response may carry
Epfs == [ext : Ports, int : Ports, start_ts : {0} \cup LeaseStarts]

\* the answers of the create endpoint: res.data; with a zero flag the epf member
\* is not read: it is left out, or some one
CreateAnswers ==
  [success : SuccessFlags \ {"0"}, epf : {NoEpf} \cup Epfs]
    \cup [success : {"0"}, epf : {NoEpf, CHOOSE e \in Epfs : TRUE}]
    \cup {RequestError}

\* what may answer the request login() awaits at pc
Answers(pc) ==
  CASE pc = "login_flare" -> FlareAnswers
    [] pc = "login_auth" -> AuthAnswers
    [] pc = "login_captcha" -> CaptchaAnswers
    [] pc = "login_post" -> LoginAnswers

\* the request login() awaits settles
Respond(p) ==
  /\ proc[p].pc \in LoginPcs
  /\ proc[p].res = NoData
  /\ \E r \in Answers(proc[p].pc) : proc' = [proc EXCEPT ![p].res = r]
  /\ UNCHANGED <<now, cache, lockQueue>>

\* login() goes on to its next request
Proceed(p, s, pc) ==
  /\ proc' = [proc EXCEPT ![p] = [s EXCEPT !.pc = pc]]
  /\ UNCHANGED <<cache, lockQueue>>

\* step 1, on the answer r of the anti-bot solver
OnFlare(p, r) ==
  LET s == [proc[p] EXCEPT !.res = NoData]
  IN IF FlareError(r) = ""
     THEN Proceed(p, s, "login_auth")
     ELSE Reject(p, [s EXCEPT !.message = LoginError(<<FlareError(r)>>)])

\* step 2, on the answer r to the auth-token request
OnAuth(p, r) ==
  LET s == [proc[p] EXCEPT !.res = NoData]
  IN IF AuthError(r) # <<>>
     THEN Reject(p, [s EXCEPT !.message = LoginError(AuthError(r))])
     ELSE IF r.captcha
     THEN Proceed(p, s, "login_captcha")
     ELSE Proceed(p, [s EXCEPT !.loginForm = Stringify(LoginData(totp, NoSolution, now))],
                  "login_post")

\* step 2, challenged: on solveCaptcha() resolving or throwing
OnCaptcha(p, r) ==
  LET s == [proc[p] EXCEPT !.res = NoData]
  IN IF r.solved
     THEN Proceed(p, [s EXCEPT !.captcha = TRUE,
                               !.loginForm = Stringify(LoginData(totp, r.solution, now))],
                  "login_post")
     ELSE Reject(p, [s EXCEPT !.message =
                       LoginError(AuthCatch("solveCaptcha error", r.named))])

\* getSession() after login() returned cookie (v, e): store it and resolve;
\* sessionCookie.expires.getTime() throws on a cookie without Expires
StoreSession(p, s, v, e) ==
  IF e = NoExpires
  THEN Reject(p, [s EXCEPT !.message = <<"TypeError">>])
  ELSE Resolve(p, s, v, CacheSet(cache, "sessionCookie", v, e - now, now),
               Saw(p, Entry(v, e)))

\* step 5, on the answer r to the login form
OnLogin(p, r) ==
  LET s == [proc[p] EXCEPT !.res = NoData, !.loginForm = {}]
  IN IF PostError(r) # ""
     THEN Reject(p, [s EXCEPT !.message = LoginError(<<PostError(r)>>)])
     ELSE StoreSession(p, s, r.setCookie.value, r.setCookie.expires)

\* login() on the answer r to the request it awaits
OnAnswer(p, r) ==
  CASE proc[p].pc = "login_flare" -> OnFlare(p, r)
    [] proc[p].pc = "login_auth" -> OnAuth(p, r)
    [] proc[p].pc = "login_captcha" -> OnCaptcha(p, r)
    [] proc[p].pc = "login_post" -> OnLogin(p, r)

\* step 1: the anti-bot solver answers the clearance request
LoginFlare(p) ==
  /\ proc[p].pc = "login_flare"
  /\ proc[p].res = NoData
  /\ UNCHANGED now
  /\ \E r \in FlareAnswers : OnFlare(p, r)

\* step 2: the provider answers the auth-token request
LoginAuth(p) ==
  /\ proc[p].pc = "login_auth"
  /\ proc[p].res = NoData
  /\ UNCHANGED now
  /\ \E r \in AuthAnswers : OnAuth(p, r)

\* step 2, challenged: solveCaptcha() resolves or throws
LoginCaptcha(p) ==
  /\ proc[p].pc = "login_captcha"
  /\ proc[p].res = NoData
  /\ UNCHANGED now
  /\ \E r \in CaptchaAnswers : OnCaptcha(p, r)

\* step 5: the provider answers the login form
LoginPost(p) ==
  /\ proc[p].pc = "login_post"
  /\ proc[p].res = NoData
  /\ UNCHANGED now
  /\ \E r \in LoginAnswers : OnLogin(p, r)

\* login() takes up the answer that settled the request it awaited
LoginSettled(p) ==
  /\ proc[p].pc \in LoginPcs
  /\ proc[p].res # NoData
  /\ UNCHANGED now
  /\ OnAnswer(p, proc[p].res)


(* ---------------------- pure parts of updatePort ---------------------- *)
\* [extPort, intPort].filter(p => p !== undefined)
PortsOf(ext, int) ==
  (IF ext = Undefined THEN <<>> ELSE <<ext>>) \o (IF int = Undefined THEN <<>> ELSE <<int>>)

\* mutant of Mismatched: any two ports count as a mismatch
MismatchedAnyPair(info) == Len(info.ports) = 2

\* mutant of Mismatched: the check is skipped
MismatchedNever(info) == FALSE

\* ports.length == 2 && ports[0] != ports[1]
Mismatched(info) == Len(info.ports) = 2 /\ info.ports[1] # info.ports[2]

\* mutant of ResetLease: the lease start is left as read
ResetLeaseKeepsStart(info) == [info EXCEPT !.ports = <<>>]

\* portForwardingInfo.ports = []; portForwardingInfo.epfExpires = 0
ResetLease(info) == [info EXCEPT !.ports = <<>>, !.epfExpires = 0]

\* portForwardingInfo.epfExpires == 0
NoLease(info) == info.epfExpires = 0

\* mutant of Expiry: the seconds are not converted to milliseconds
ExpiryInSeconds(info) == info.epfExpires + SecondsPerDay * LeaseDays

\* new Date((epfExpires + 86400 * 7) * 1000).getTime()
Expiry(info) == (info.epfExpires + SecondsPerDay * LeaseDays) * MsPerSecond

\* mutant of FirstPort: the last port (the internal one) is taken
FirstPortLast(info) == IF Len(info.ports) = 0 THEN Undefined ELSE info.ports[Len(info.ports)]

\* ports[0], undefined when no port was parsed
FirstPort(info) == IF Len(info.ports) = 0 THEN Undefined ELSE info.ports[1]

\* mutant of ZeroSuccess: the flag is not looked at
ZeroSuccessNever(success) == FALSE

\* res.data.success == 0
ZeroSuccess(success) == success = "0"

\* {epfExpires: epf.start_ts, ports: [epf.ext, epf.int]}
EpfInfo(epf) == [epfExpires |-> epf.start_ts, ports |-> <<epf.ext, epf.int>>]

(* ------------------------------ updatePort ---------------------------- *)
\* build ret, cache it and return it; ret.port.toString() throws on a missing port
Finish(p, s, c) ==
  IF FirstPort(s.info) = Undefined
  THEN /\ lockQueue' = lockQueue
       /\ cache' = c
       /\ proc' = [proc EXCEPT ![p] =
            [Over(s) EXCEPT !.pc = "failed", !.error = "TypeError"]]
  ELSE /\ lockQueue' = lockQueue
       /\ cache' = CacheSet(c, "port", Digits(FirstPort(s.info)), Expiry(s.info) - now, now)
       /\ proc' = [proc EXCEPT ![p] =
            [Over(s) EXCEPT !.pc = "done", !.portSets = Inc(@),
                      !.ret = [port |-> FirstPort(s.info), expires |-> Expiry(s.info)]]]

\* request a new port when no lease is active, else keep the existing one
RequestOrKeep(p, s, c) ==
  IF NoLease(s.info)
  THEN CallGetSession(p, [s EXCEPT !.createdFrom = s.info], "request", FALSE, c)
  ELSE Finish(p, s, c)

\* what /csrf_time = (\d+);/ may capture in a 200 account page: digits, or
\* <<>> when nothing in the page matches
CsrfTimes == {<<>>, <<1, 7>>}

\* the 200 account pages, by what the two expressions capture in them; an
\* Undefined token: /csrf_token = '(\w+)';/ matches nothing
AccountPages == [csrf_time : CsrfTimes, csrf_token : CsrfTokens \cup {Undefined}]

\* mutant of NoMatch: a page without the time is taken
NoMatchTokenOnly(page) == page.csrf_token = Undefined

\* one of the two exec() calls returns null, and reading [1] of it throws
NoMatch(page) == page.csrf_time = <<>> \/ page.csrf_token = Undefined

\* +csrfTime
CsrfTimeOf(page) == ParseDigits(page.csrf_time)

\* getMyAccountCsrfToken: the account page answers
AccountPage(p) ==
  /\ proc[p].pc = "csrf_get"
  /\ UNCHANGED now
  /\ LET s == [proc[p] EXCEPT !.acctReqs = Inc(@)] IN
     \/ Fail(p, [s EXCEPT !.res = RequestError, !.message = <<"AxiosError">>], "csrf")
     \/ CallGetSession(p, [s EXCEPT !.res = Redirect], "csrf", TRUE, cache)
     \/ \E page \in AccountPages :
          IF NoMatch(page)
          THEN Fail(p, [s EXCEPT !.res = page, !.message = <<"TypeError">>], "csrf")
          ELSE CallGetSession(p, [s EXCEPT !.csrfToken = page.csrf_token,
                                           !.csrfTime = CsrfTimeOf(page),
                                           !.res = page],
                              "info", FALSE, cache)

\* getPortForwardingInfo: the status page answers; updatePort checks for a mismatch
StatusPage(p) ==
  /\ proc[p].pc = "info_get"
  /\ UNCHANGED now
  /\ LET s == [proc[p] EXCEPT !.statusReqs = Inc(@)] IN
     \/ Fail(p, [s EXCEPT !.res = RequestError, !.message = <<"AxiosError">>], "info")
     \/ Fail(p, [s EXCEPT !.res = Unparsable, !.message = <<"TypeError">>], "info")
     \/ \E e \in {0} \cup LeaseStarts, ext \in Ports \cup {Undefined}, int \in Ports \cup {Undefined} :
          LET i == [epfExpires |-> e, ports |-> PortsOf(ext, int)]
              s2 == [s EXCEPT !.info = i, !.status = i,
                              !.res = [epfExpires |-> e, ext |-> ext, int |-> int]]
          IN IF Mismatched(i)
             THEN CallGetSession(p, s2, "remove", FALSE, cache)
             ELSE RequestOrKeep(p, s2, cache)

\* removeEphemeralPort: the delete endpoint answers; updatePort resets its state
DeleteEphPort(p) ==
  /\ proc[p].pc = "remove_post"
  /\ UNCHANGED now
  /\ \E r \in DeleteAnswers :
     LET s == [proc[p] EXCEPT !.deletes = Inc(@), !.res = r]
     IN IF r = RequestError
        THEN Fail(p, [s EXCEPT !.message = <<"AxiosError">>], "remove")
        ELSE IF ZeroSuccess(r.success)
        THEN Fail(p, [s EXCEPT !.message = <<"success = 0">>], "remove")
        ELSE RequestOrKeep(p,
               [s EXCEPT !.deleted = TRUE, !.info = ResetLease(@)],
               CacheDelete(cache, "port"))

\* requestMatchingEphemeralPort: the create endpoint answers
PostEphPort(p) ==
  /\ proc[p].pc = "request_post"
  /\ UNCHANGED now
  /\ \E r \in CreateAnswers :
     LET s == [proc[p] EXCEPT !.creates = Inc(@), !.res = r]
     IN IF r = RequestError
        THEN Fail(p, [s EXCEPT !.message = <<"AxiosError">>], "request")
        ELSE IF ZeroSuccess(r.success)
        THEN Fail(p, [s EXCEPT !.message = <<"success = 0">>], "request")
        ELSE IF r.epf = NoEpf
        THEN Fail(p, [s EXCEPT !.message = <<"TypeError">>], "request")
        ELSE Finish(p, [s EXCEPT !.info = EpfInfo(r.epf), !.epf = EpfInfo(r.epf)],
                    cache)

\* the caller has its result and may call again
Return(p) ==
  /\ proc[p].pc \in {"done", "failed", "returned"}
  /\ proc' = [proc EXCEPT ![p] = Blank]
  /\ UNCHANGED <<now, cache, lockQueue>>

\* time passes
Tick ==
  /\ now < StartTime + MaxTicks * TickMs
  /\ now' = now + TickMs
  /\ UNCHANGED <<cache, lockQueue, proc>>

\* the steps inside getSession(): the lock callback and login()
SessionStep(p) ==
  \/ GetSession(p)
  \/ LoginFlare(p)
  \/ LoginAuth(p)
  \/ LoginCaptcha(p)
  \/ LoginPost(p)

\* the steps of an updatePort() pass
Step(p) ==
  \/ SessionStep(p)
  \/ AccountPage(p)
  \/ StatusPage(p)
  \/ DeleteEphPort(p)
  \/ PostEphPort(p)

\* the caller whose updatePort() passes Spec follows, one pass after another
Caller == CHOOSE p \in Procs : \A q \in Procs : p <= q

\* one updatePort() pass after another
Next ==
  \/ UpdatePort(Caller) /\ UNCHANGED <<client, pass, totp, solver, sign, sched>>
  \/ Step(Caller) /\ UNCHANGED <<client, pass, totp, solver, sign, sched>>
  \/ Return(Caller) /\ UNCHANGED <<client, pass, totp, solver, sign, sched>>
  \/ Tick /\ UNCHANGED <<client, pass, totp, solver, sign, sched>>

Spec == Init /\ [][Next]_vars

\* every request is eventually answered and every queued callback eventually runs
FairSpec == Spec /\ WF_vars(Step(Caller) /\ UNCHANGED <<client, pass, totp, solver, sign, sched>>)

\* concurrent callers of getSession()
SessionNext ==
  \/ \E p \in Procs : CallSession(p) /\ UNCHANGED <<client, pass, totp, solver, sign, sched>>
  \/ \E p \in Procs : SessionStep(p) /\ UNCHANGED <<client, pass, totp, solver, sign, sched>>
  \/ \E p \in Procs : Return(p) /\ UNCHANGED <<client, pass, totp, solver, sign, sched>>
  \/ Tick /\ UNCHANGED <<client, pass, totp, solver, sign, sched>>

SessionSpec == Init /\ [][SessionNext]_vars

\* one getSession() call after another, each answer to login() a step of its own
LoginNext ==
  \/ CallLogin(Caller) /\ UNCHANGED <<client, pass, totp, solver, sign, sched>>
  \/ GetSession(Caller) /\ UNCHANGED <<client, pass, totp, solver, sign, sched>>
  \/ Respond(Caller) /\ UNCHANGED <<client, pass, totp, solver, sign, sched>>
  \/ LoginSettled(Caller) /\ UNCHANGED <<client, pass, totp, solver, sign, sched>>
  \/ Return(Caller) /\ UNCHANGED <<client, pass, totp, solver, sign, sched>>
  \/ Tick /\ UNCHANGED <<client, pass, totp, solver, sign, sched>>

\* the client is constructed with a TOTP secret or without one
LoginInit ==
  /\ now = StartTime
  /\ cache = [k \in Keys |-> NoEntry]
  /\ lockQueue = <<>>
  /\ proc = [p \in Procs |-> Blank]
  /\ client = TorrentPort
  /\ pass = BlankPass
  /\ totp \in BOOLEAN
  /\ sign = NoSign
  /\ sched = NoRun
  /\ solver = NoCall

LoginSpec == LoginInit /\ [][LoginNext]_vars

(* ----------------------------- solveCaptcha --------------------------- *)
\* solveCaptcha() is called with a challenge
SolverInit ==
  /\ now = StartTime
  /\ cache = [k \in Keys |-> NoEntry]
  /\ lockQueue = <<>>
  /\ proc = [p \in Procs |-> Blank]
  /\ client = TorrentPort
  /\ pass = BlankPass
  /\ totp = FALSE
  /\ sign = NoSign
  /\ sched = NoRun
  /\ solver \in {SolveCall(c) : c \in Challenges}

SolverNext ==
  \/ FindSliderOffsetWithTemplate
  \/ FindCutout
  \/ GenerateMouseTrail
  \/ TrailSample
  \/ TrailReturn

SolverSpec == SolverInit /\ [][SolverNext]_vars

\* the greatest target offset
MaxOffset == 120
\* the target offsets
Offsets == -3..MaxOffset

\* generateMouseTrail() is called with a target offset
TrailInit ==
  /\ now = StartTime
  /\ cache = [k \in Keys |-> NoEntry]
  /\ lockQueue = <<>>
  /\ proc = [p \in Procs |-> Blank]
  /\ client = TorrentPort
  /\ pass = BlankPass
  /\ totp = FALSE
  /\ sign = NoSign
  /\ sched = NoRun
  /\ solver \in {TrailCall(T) : T \in Offsets}

TrailNext == TrailSample \/ TrailReturn

TrailSpec == TrailInit /\ [][TrailNext]_vars

(* ---------------------- solveCaptcha, run twice ----------------------- *)
\* the challenges that are solved twice
RepeatChallenges ==
  {c \in Challenges :
     /\ c.background \in {WideBackground,
                          Png(77, 2, {<<40, 0>>, <<41, 1>>}, {}),
                          Png(77, 2, {<<23, 0>>, <<23, 1>>, <<26, 0>>}, {})}
     /\ c.slider \in {NoSlider, Piece(80, 5, 79), Piece(4, 1, 2)}}

\* solveCaptcha(captchaData) is entered, to be entered again on the same data
RepeatCall(captchaData) ==
  [SolveCall(captchaData) EXCEPT
     !.history = [captchaData |-> captchaData, runs |-> 0, offset |-> 0, first |-> 0]]

\* solveCaptcha() has returned {offset, trail}; it is called on the same data
SolveAgain ==
  /\ solver.pc = "returned"
  /\ solver.history # NoData
  /\ solver.history.runs = 0
  /\ solver' = [SolveCall(solver.history.captchaData) EXCEPT
                  !.history = [solver.history EXCEPT !.runs = 1,
                                                     !.offset = solver.targetOffset,
                                                     !.first = solver.first]]
  /\ UNCHANGED <<now, cache, lockQueue, proc, client, pass, totp, sign, sched>>

RepeatInit ==
  /\ now = StartTime
  /\ cache = [k \in Keys |-> NoEntry]
  /\ lockQueue = <<>>
  /\ proc = [p \in Procs |-> Blank]
  /\ client = TorrentPort
  /\ pass = BlankPass
  /\ totp = FALSE
  /\ sign = NoSign
  /\ sched = NoRun
  /\ solver \in {RepeatCall(c) : c \in RepeatChallenges}

RepeatNext == SolverNext \/ SolveAgain

RepeatSpec == RepeatInit /\ [][RepeatNext]_vars

(* ------------------------------ update() ----------------------------- *)
\* mutant of GetPort: the cached port is not looked up
GetPortNull(c, t) == NullPort

\* mutant of GetPort: the entry is read whether or not it has expired
GetPortStale(c, t) ==
  IF c["port"] = NoEntry
  THEN NullPort
  ELSE [port |-> ParseDigits(c["port"].value), expires |-> c["port"].expires]

\* getPort(): the cached port and its expiry, null when none is cached
GetPort(c, t) ==
  IF CacheGetRaw(c, "port", t) = NoEntry
  THEN NullPort
  ELSE [port |-> ParseDigits(CacheGetRaw(c, "port", t).value),
        expires |-> CacheGetRaw(c, "port", t).expires]

\* the catch of the second try block: retry after the client delay
ClientCatch(s) ==
  [s EXCEPT !.pc = "end", !.outcome = "failed", !.nextRetry = now + ClientRetryDelay]

\* update() is called: windscribe.updatePort() is called
Update ==
  /\ pass.pc = "idle"
  /\ pass' = [BlankPass EXCEPT !.pc = "try"]
  /\ UpdatePort(Caller)
  /\ UNCHANGED <<client, totp, solver, sign, sched>>

\* updatePort() resolved: the next run is due once the port has expired;
\* client.getPort() is called
UpdateResolved ==
  /\ pass.pc = "try" /\ proc[Caller].pc = "done"
  /\ pass' = [pass EXCEPT !.pc = "client_get",
                          !.portInfo = proc[Caller].ret,
                          !.nextRun = proc[Caller].ret.expires + WindscribeExtraDelay]
  /\ proc' = [proc EXCEPT ![Caller] = Blank]
  /\ UNCHANGED <<now, cache, lockQueue, client, totp, solver, sign, sched>>

\* mutant of UpdateRejected: the catch sets no retry
UpdateRejectedNoRetry ==
  /\ pass.pc = "try" /\ proc[Caller].pc = "failed"
  /\ pass' = [pass EXCEPT !.pc = "client_get", !.failed = TRUE,
                          !.cached = CacheGetRaw(cache, "port", now),
                          !.portInfo = GetPort(cache, now)]
  /\ proc' = [proc EXCEPT ![Caller] = Blank]
  /\ UNCHANGED <<now, cache, lockQueue, client, totp, solver, sign, sched>>

\* updatePort() rejected: retry after the windscribe delay, take the cached port
\* if there is one; client.getPort() is called
UpdateRejected ==
  /\ pass.pc = "try" /\ proc[Caller].pc = "failed"
  /\ pass' = [pass EXCEPT !.pc = "client_get", !.failed = TRUE,
                          !.cached = CacheGetRaw(cache, "port", now),
                          !.nextRetry = now + WindscribeRetryDelay,
                          !.portInfo = GetPort(cache, now)]
  /\ proc' = [proc EXCEPT ![Caller] = Blank]
  /\ UNCHANGED <<now, cache, lockQueue, client, totp, solver, sign, sched>>

\* client.getPort() settles: the port is compared with the windscribe port
ClientGetPort ==
  /\ pass.pc = "client_get"
  /\ \/ pass' = ClientCatch(pass)
     \/ pass' = [pass EXCEPT !.currentPort = client,
                  !.pc = IF pass.portInfo = NullPort \/ client = pass.portInfo.port
                         THEN "end" ELSE "client_set",
                  !.outcome = IF pass.portInfo = NullPort THEN "unknown"
                              ELSE IF client = pass.portInfo.port THEN "matches"
                              ELSE @]
  /\ UNCHANGED <<now, cache, lockQueue, proc, client, totp, solver, sign, sched>>

\* client.updatePort(portInfo.port) settles: it throws, or the torrent client
\* has taken the port, or it has not
ClientUpdatePort ==
  /\ pass.pc = "client_set"
  /\ \/ pass' = ClientCatch(pass) /\ client' = client
     \/ pass' = [pass EXCEPT !.pc = "client_check"]
        /\ client' \in {pass.portInfo.port, client}
  /\ UNCHANGED <<now, cache, lockQueue, proc, totp, solver, sign, sched>>

\* mutant of ClientDoubleCheck: the port read back is not compared
ClientDoubleCheckTrusting ==
  /\ pass.pc = "client_check"
  /\ \/ pass' = ClientCatch(pass)
     \/ pass' = [pass EXCEPT !.currentPort = client, !.pc = "end",
                             !.outcome = "updated"]
  /\ UNCHANGED <<now, cache, lockQueue, proc, client, totp, solver, sign, sched>>

\* the second client.getPort() settles: the double check
ClientDoubleCheck ==
  /\ pass.pc = "client_check"
  /\ \/ pass' = ClientCatch(pass)
     \/ pass' = IF client # pass.portInfo.port
                THEN ClientCatch([pass EXCEPT !.currentPort = client])
                ELSE [pass EXCEPT !.currentPort = client, !.pc = "end",
                                  !.outcome = "updated"]
  /\ UNCHANGED <<now, cache, lockQueue, proc, client, totp, solver, sign, sched>>

\* the branch run() takes on the result of update(): a retry if nextRetry is
\* set, else a normal run if nextRun is set, else the 'Invalid state' exit
RunBranchNormalFirst(nextRun, nextRetry) ==
  IF nextRun # NullDate THEN "normal"
  ELSE IF nextRetry # NullDate THEN "retry"
  ELSE "invalid"

RunBranch(nextRun, nextRetry) ==
  IF nextRetry # NullDate THEN "retry"
  ELSE IF nextRun # NullDate THEN "normal"
  ELSE "invalid"

\* update() returns {nextRun, nextRetry}
UpdateReturns ==
  /\ pass.pc = "end"
  /\ pass' = BlankPass
  /\ UNCHANGED <<now, cache, lockQueue, proc, client, totp, solver, sign, sched>>

\* one update() pass after another
UpdateNext ==
  \/ Update
  \/ Step(Caller) /\ UNCHANGED <<client, pass, totp, solver, sign, sched>>
  \/ UpdateResolved
  \/ UpdateRejected
  \/ ClientGetPort
  \/ ClientUpdatePort
  \/ ClientDoubleCheck
  \/ UpdateReturns
  \/ Tick /\ UNCHANGED <<client, pass, totp, solver, sign, sched>>

UpdateSpec == Init /\ [][UpdateNext]_vars

(* -------------------------------- run() ------------------------------ *)
\* the greatest number of run() calls
MaxRuns == 3

\* what update() resolves with when its windscribe phase, its client phase or
\* both failed at time t, expires being the expiry updatePort() returned
UpdateResult(windscribeFailed, clientFailed, expires, t) ==
  [nextRun |-> IF windscribeFailed THEN NullDate ELSE expires + WindscribeExtraDelay,
   nextRetry |-> IF clientFailed THEN t + ClientRetryDelay
                 ELSE IF windscribeFailed THEN t + WindscribeRetryDelay
                 ELSE NullDate]

\* the ways an update() pass may go: which phases failed and, in days from
\* now, when the port expires (a lease that has one day left, or two)
Outcomes == [windscribeFailed : BOOLEAN, clientFailed : BOOLEAN, days : {1, 2}]

\* the module is loaded: scheduledTask is null or a task that is not started,
\* timeoutId is undefined; timers: the timers that are pending; updates: the
\* run() calls that await update(); armed: the number of timers set so far;
\* settled: how the last update() went
Loaded(cron) ==
  [pc |-> "loaded", cron |-> cron, timeoutId |-> Undefined, timers |-> {},
   updates |-> {}, count |-> 0, armed |-> 0, settled |-> NoData]

\* clearTimeout(id)
ClearTimeout(timers, id) == {tm \in timers : tm.id # id}

\* scheduledTask?.stop() and scheduledTask?.start()
Stop(cron) == IF cron = "none" THEN cron ELSE "stopped"
Start(cron) == IF cron = "none" THEN cron ELSE "started"

\* run(trigger) up to its await: the timer of timeoutId is cleared and
\* update() is called
RunCall(s, trigger) ==
  [s EXCEPT !.pc = "live",
            !.timers = ClearTimeout(@, s.timeoutId),
            !.updates = @ \cup {[id |-> s.count + 1, trigger |-> trigger]},
            !.count = @ + 1]

\* run('initial')
RunInitial ==
  /\ sched.pc = "loaded"
  /\ sched' = RunCall(sched, "initial")
  /\ UNCHANGED <<now, cache, lockQueue, proc, client, pass, totp, solver, sign>>

\* the cron task, being started, triggers run('schedule')
CronFires ==
  /\ sched.pc = "live"
  /\ sched.cron = "started"
  /\ sched.count < MaxRuns
  /\ sched' = RunCall(sched, "schedule")
  /\ UNCHANGED <<now, cache, lockQueue, proc, client, pass, totp, solver, sign>>

\* the pending timer that is due first fires, at its time or at once when that
\* has passed: run('retry') or run('normal')
TimerFires ==
  /\ sched.pc = "live"
  /\ sched.count < MaxRuns
  /\ \E tm \in sched.timers :
       /\ \A other \in sched.timers : tm.due <= other.due
       /\ now' = Max(now, tm.due)
       /\ sched' = RunCall([sched EXCEPT !.timers = @ \ {tm}], tm.trigger)
  /\ UNCHANGED <<cache, lockQueue, proc, client, pass, totp, solver, sign>>

\* setTimeout(() => run(trigger), due - Date.now()), assigned to timeoutId
SetTimeout(s, trigger, due) ==
  [s EXCEPT !.timers = @ \cup {[id |-> s.armed + 1, trigger |-> trigger, due |-> due]},
            !.timeoutId = s.armed + 1,
            !.armed = @ + 1]

\* run() after its await, on the result r of update()
RunResumes(s, r) ==
  CASE RunBranch(r.nextRun, r.nextRetry) = "retry" ->
         SetTimeout([s EXCEPT !.cron = Stop(@)], "retry", r.nextRetry)
    [] RunBranch(r.nextRun, r.nextRetry) = "normal" ->
         SetTimeout([s EXCEPT !.cron = Start(@)], "normal", r.nextRun)
    [] OTHER -> [s EXCEPT !.pc = "exited"]

\* the update() of a run() call resolves, and the call goes on to its end
UpdateSettles ==
  /\ sched.pc = "live"
  /\ \E u \in sched.updates, o \in Outcomes :
       sched' = RunResumes(
                  [sched EXCEPT !.updates = @ \ {u}, !.settled = o],
                  UpdateResult(o.windscribeFailed, o.clientFailed,
                               now + o.days * SecondsPerDay * MsPerSecond, now))
  /\ UNCHANGED <<now, cache, lockQueue, proc, client, pass, totp, solver, sign>>

\* config.cronSchedule is set or it is not
RunInit ==
  /\ now = StartTime
  /\ cache = [k \in Keys |-> NoEntry]
  /\ lockQueue = <<>>
  /\ proc = [p \in Procs |-> Blank]
  /\ client = TorrentPort
  /\ pass = BlankPass
  /\ totp = FALSE
  /\ solver = NoCall
  /\ sign = NoSign
  /\ sched \in {Loaded(cron) : cron \in {"none", "stopped"}}

RunNext ==
  \/ RunInitial
  \/ CronFires
  \/ TimerFires
  \/ UpdateSettles

RunSpec == RunInit /\ [][RunNext]_vars

(* ------------------- login(), steps 3 and 4: the signature ------------ *)
\* AUTH_TOKEN_SECRET
AuthTokenSecret ==
  <<"m", "y", "_", "m", "o", "m", "_", "t", "o", "l", "d", "_", "m", "e", "_",
    "t", "h", "i", "s", "_", "i", "s", "_", "p", "e", "a", "k", "_",
    "e", "n", "g", "i", "n", "e", "e", "r", "i", "n", "g">>

\* the characters of tokens, of the secret and of generated values
Chars ==
  <<"0", "1", "2", "3", "4", "5", "6", "7", "8", "9", "a", "b", "c", "d", "e", "f",
    "g", "h", "i", "j", "k", "l", "m", "n", "o", "p", "q", "r", "s", "t", "u", "v",
    "w", "x", "y", "z", "_">>

\* the code of character c
CharCode(c) == CHOOSE i \in 1..Len(Chars) : Chars[i] = c

\* createHash('sha256').update(text).digest(): a 16-bit polynomial hash of
\* the characters stands for SHA-256
RECURSIVE Digest(_)
Digest(text) ==
  IF text = <<>> THEN 7
  ELSE (Digest(SubSeq(text, 1, Len(text) - 1)) * 31 + CharCode(text[Len(text)])) % (2 ^ 16)

\* digest('hex'): the digest as hexadecimal digits, the most significant first
Hex(d) == [i \in 1..4 |-> Chars[((d \div (16 ^ (4 - i))) % 16) + 1]]

\* computeTokenSignature(token): the hash of token + AUTH_TOKEN_SECRET as hex
ComputeTokenSignature(token) == Hex(Digest(token \o AuthTokenSecret))

\* the auth tokens of the provider
Tokens == {<<"t", "0">>, <<"t", "1">>, <<"0", "t">>}
\* generateNonce(), generateSessionId(), generateRequestId(): random texts
Nonces == {<<"k", "9">>, <<"z", "3">>}
SessionIds == {<<"0", "a">>, <<"f", "f">>}
RequestIds == {<<"q", "w">>, <<"e", "r">>}

\* mutant of LoginParameters: the nonce is signed with the token
LoginParametersNonceSigned(token, timestamp, nonce, sessionId, requestId) ==
  [secure_token |-> token,
   secure_token_sig |-> ComputeTokenSignature(token \o nonce),
   timestamp |-> timestamp,
   nonce |-> nonce,
   session_id |-> sessionId,
   request_id |-> requestId]

\* loginData, of its members those that depend on the token or are generated
LoginParameters(token, timestamp, nonce, sessionId, requestId) ==
  [secure_token |-> token,
   secure_token_sig |-> ComputeTokenSignature(token),
   timestamp |-> timestamp,
   nonce |-> nonce,
   session_id |-> sessionId,
   request_id |-> requestId]

\* login() has got authToken in step 2; earlier: loginData of the login before
SignCall(authToken, earlier) ==
  [pc |-> "sign", authToken |-> authToken, loginData |-> NoData, earlier |-> earlier]

\* steps 3 and 4: the signature is computed, the values are generated, loginData
\* is built
SignLogin ==
  /\ sign.pc = "sign"
  /\ \E nonce \in Nonces, sessionId \in SessionIds, requestId \in RequestIds :
       sign' = [sign EXCEPT !.pc = "built",
                            !.loginData = LoginParameters(sign.authToken, now, nonce,
                                                          sessionId, requestId)]
  /\ UNCHANGED <<now, cache, lockQueue, proc, client, pass, totp, solver, sched>>

\* a later login() gets its token in step 2
LoginAgain ==
  /\ sign.pc = "built"
  /\ sign.earlier = NoData
  /\ \E authToken \in Tokens : sign' = SignCall(authToken, sign.loginData)
  /\ UNCHANGED <<now, cache, lockQueue, proc, client, pass, totp, solver, sched>>

SignInit ==
  /\ now = StartTime
  /\ cache = [k \in Keys |-> NoEntry]
  /\ lockQueue = <<>>
  /\ proc = [p \in Procs |-> Blank]
  /\ client = TorrentPort
  /\ pass = BlankPass
  /\ totp = FALSE
  /\ solver = NoCall
  /\ sched = NoRun
  /\ sign \in {SignCall(authToken, NoData) : authToken \in Tokens}

SignNext ==
  \/ SignLogin
  \/ LoginAgain
  \/ Tick /\ UNCHANGED <<client, pass, totp, solver, sign, sched>>

SignSpec == SignInit /\ [][SignNext]_vars

(* ======================= claims about getSession ====================== *)
InLogin(p) == proc[p].pc \in LoginPcs

\* the session cookie in the store has not expired
LiveCookie ==
  /\ cache["sessionCookie"] # NoEntry
  /\ now <= cache["sessionCookie"].expires

\* C1: whatever the callers' forceLogin values, at most one login() is in progress
\* at any moment, and the caller running it holds the session lock until its
\* cookie is stored or its failure raised
C1_AtMostOneLogin ==
  /\ Cardinality({p \in Procs : InLogin(p)}) <= 1
  /\ \A p \in Procs : InLogin(p) => HoldsLock(lockQueue, p)

\* a login() is running while a caller with the other forceLogin value waits
C1_Witness ==
  \E p, q \in Procs :
    /\ InLogin(p) /\ proc[q].pc = "gs_wait"
    /\ proc[p].forceLogin # proc[q].forceLogin

\* C2: a getSession(false) caller during whose call another caller's login()
\* stored a cookie that is still unexpired (and not evicted) receives that
\* cookie and performs no login() of its own
C2_NoSecondLogin ==
  \A q \in Procs :
    (proc[q].pc = "returned" /\ ~proc[q].forceLogin /\ proc[q].shared # Undefined)
      => (proc[q].sessionCookie = proc[q].shared /\ ~proc[q].gsLogin)

\* two concurrent getSession(false) calls returned: one logged in, the other
\* received the same cookie without a login
C2_Witness ==
  \E p, q \in Procs :
    /\ p # q
    /\ proc[p].pc = "returned" /\ ~proc[p].forceLogin /\ proc[p].gsLogin
    /\ proc[q].pc = "returned" /\ ~proc[q].forceLogin /\ ~proc[q].gsLogin
    /\ proc[q].shared = proc[p].sessionCookie
    /\ proc[q].sessionCookie = proc[p].sessionCookie

\* C3: when getSession(false) looks the cookie up while an unexpired one is
\* stored, it resolves with exactly that value, starts no login() and leaves
\* the store as it is
C3_CachedCookieReturned ==
  [][\A p \in Procs :
       (/\ proc[p].pc = "gs_wait" /\ proc'[p].pc # "gs_wait"
        /\ ~proc[p].forceLogin /\ LiveCookie)
       => (/\ proc'[p].pc = "returned"
           /\ proc'[p].sessionCookie = cache["sessionCookie"].value
           /\ ~proc'[p].gsLogin
           /\ cache' = cache)]_vars

\* a getSession(false) call returned the stored cookie without a login
C3_Witness ==
  \E p \in Procs :
    /\ proc[p].pc = "returned" /\ ~proc[p].forceLogin /\ ~proc[p].gsLogin
    /\ LiveCookie /\ proc[p].sessionCookie = cache["sessionCookie"].value

\* C4: getSession(true) first evicts the stored cookie and enters login(); when
\* it resolves, it does so out of that login() and with the value the store
\* then holds
C4_ForcedLogin ==
  [][\A p \in Procs :
       /\ (proc[p].pc = "gs_wait" /\ proc'[p].pc # "gs_wait" /\ proc[p].forceLogin)
            => (cache'["sessionCookie"] = NoEntry /\ proc'[p].pc = "login_flare")
       /\ (proc[p].pc # "returned" /\ proc'[p].pc = "returned" /\ proc'[p].forceLogin)
            => (/\ proc[p].pc = "login_post" /\ proc'[p].gsLogin
                /\ cache'["sessionCookie"] # NoEntry
                /\ cache'["sessionCookie"].value = proc'[p].sessionCookie)]_vars

\* a getSession(true) call resolved with the cookie its login() stored
C4_Witness ==
  \E p \in Procs :
    /\ proc[p].pc = "returned" /\ proc[p].forceLogin /\ proc[p].gsLogin
    /\ cache["sessionCookie"] # NoEntry
    /\ cache["sessionCookie"].value = proc[p].sessionCookie

(* ======================= claims about updatePort ====================== *)
\* the state read from the status page: two unequal ports
StatusMismatched(s) == Len(s.status.ports) = 2 /\ s.status.ports[1] # s.status.ports[2]

\* the state read from the status page: an active lease on two equal ports
StatusActiveMatched(s) ==
  /\ s.statusReqs > 0
  /\ s.status.epfExpires # 0
  /\ Len(s.status.ports) = 2 /\ s.status.ports[1] = s.status.ports[2]

\* leaseStart + 7 days, in milliseconds
SevenDaysAfter(start) == (start + 604800) * 1000

\* C5: a redirect from the account page triggers exactly one retry with
\* forceLogin = true; a second redirect fails the call, so one updatePort() call
\* makes at most one forced login and at most two account-page requests
C5_OneForcedRetry ==
  \A p \in Procs : proc[p].forced <= 1 /\ proc[p].acctReqs <= 2

\* C6: every updatePort() call eventually resolves or rejects, whatever the
\* answers are
C6_UpdatePortCompletes ==
  \A p \in Procs :
    (proc[p].pc # "idle") ~> (proc[p].pc \in {"done", "failed"})

\* C7: on an active lease with two equal ports [p, p], updatePort() sends neither
\* a delete nor a create request and returns p with expiry leaseStart + 7 days
C7_KeepsMatchingLease ==
  \A p \in Procs :
    StatusActiveMatched(proc[p]) =>
      /\ proc[p].pc = "done"
      /\ proc[p].deletes = 0 /\ proc[p].creates = 0
      /\ proc[p].ret.port = proc[p].status.ports[1]
      /\ proc[p].ret.expires = SevenDaysAfter(proc[p].status.epfExpires)

\* updatePort() returned on an active lease with two equal ports
C7_Witness ==
  \E p \in Procs : proc[p].pc = "done" /\ StatusActiveMatched(proc[p])

C9_CreatesOnce ==
  [][\A p \in Procs :
       /\ proc'[p].creates <= 1
       /\ (proc[p].pc # "done" /\ proc'[p].pc = "done"
           /\ (proc'[p].status.epfExpires = 0 \/ StatusMismatched(proc'[p])))
          => /\ proc[p].pc = "request_post"
             /\ proc'[p].creates = 1
             /\ proc'[p].ret.port = proc'[p].epf.ports[1]
             /\ proc'[p].ret.expires = SevenDaysAfter(proc'[p].epf.epfExpires)
             /\ cache'["port"] # NoEntry
             /\ ParseDigits(cache'["port"].value) = proc'[p].epf.ports[1]
             /\ cache'["port"].expires = SevenDaysAfter(proc'[p].epf.epfExpires)]_vars

\* updatePort() returned a newly created port whose two numbers differ
C9_Witness ==
  \E p \in Procs :
    /\ proc[p].pc = "done" /\ proc[p].status.epfExpires = 0 /\ proc[p].creates = 1
    /\ proc[p].epf.ports[1] # proc[p].epf.ports[2]
    /\ proc[p].ret.port = proc[p].epf.ports[1]

\* C10 as stated: the state updatePort() returns has no two unequal ports,
\* wherever it came from
C10_NoUnequalPorts ==
  \A p \in Procs :
    proc[p].pc = "done" =>
      (Len(proc[p].info.ports) = 2 => proc[p].info.ports[1] = proc[p].info.ports[2])

\* C10 as amended: a returned state that came from the status page has no two
\* unequal ports; one that came from the create response is the pair as answered
C10_NoUnequalStatusPorts ==
  \A p \in Procs :
    proc[p].pc = "done" =>
      /\ proc[p].creates = 0 =>
           /\ proc[p].info = proc[p].status
           /\ Len(proc[p].info.ports) = 2 => proc[p].info.ports[1] = proc[p].info.ports[2]
      /\ proc[p].creates > 0 => proc[p].info = proc[p].epf

\* updatePort() returned a two-port state read from the status page
C10_Witness ==
  \E p \in Procs :
    /\ proc[p].pc = "done" /\ proc[p].creates = 0
    /\ Len(proc[p].info.ports) = 2

\* the lease state updatePort() finally used: the one read from the status page,
\* or the one the create endpoint answered
LeaseUsed(s) == IF s.creates = 0 THEN s.status ELSE s.epf

\* C11: when updatePort() resolves, its expiry is (lease start + 7 * 86400)
\* seconds of the lease state finally used, in milliseconds, and this call has
\* written the cache entry 'port' exactly once: the returned port as text, with
\* ttl = expiry - now
C11_ExpiryAndCachedPort ==
  [][\A p \in Procs :
       /\ proc'[p].portSets <= 1
       /\ (proc'[p].pc = "done") <=> (proc'[p].portSets = 1)
       /\ (proc[p].pc # "done" /\ proc'[p].pc = "done") =>
            /\ proc'[p].ret.expires =
                 (LeaseUsed(proc'[p]).epfExpires + 7 * 86400) * 1000
            /\ proc'[p].ret.port = LeaseUsed(proc'[p]).ports[1]
            /\ cache'["port"] # NoEntry
            /\ ParseDigits(cache'["port"].value) = proc'[p].ret.port
            /\ cache'["port"].expires = now + (proc'[p].ret.expires - now)
       /\ (proc[p].pc = "done" /\ proc'[p].pc = "done") => cache' = cache]_vars

\* updatePort() returned an expiry still ahead and the cached port carries it
C11_Witness ==
  \E p \in Procs :
    /\ proc[p].pc = "done" /\ proc[p].portSets = 1
    /\ proc[p].ret.expires > now
    /\ cache["port"] = Entry(Digits(proc[p].ret.port), proc[p].ret.expires)

\* updatePort() rejected out of step 1 or step 2
FailedEarly(s) ==
  /\ s.pc = "failed"
  /\ s.error \in {"Failed to get csrf token from my account page",
                  "Failed to get port forwarding info"}

\* C12: when step 1 (the CSRF pair) or step 2 (the port-forwarding state)
\* fails, updatePort() rejects having sent no delete and no create request, and
\* no step of the call up to there has written or deleted the cached port
C12_EarlyFailureTouchesNothing ==
  [][\A p \in Procs :
       /\ FailedEarly(proc'[p]) =>
            /\ proc'[p].deletes = 0 /\ proc'[p].creates = 0
            /\ ~proc'[p].deleted /\ proc'[p].portSets = 0
       /\ (proc'[p].op \in {"csrf", "info"} /\ proc'[p].pc # "done") =>
            cache'["port"] = cache["port"]]_vars

\* step 2 failed while a port of an earlier call is cached
C12_Witness ==
  \E p \in Procs :
    /\ FailedEarly(proc[p]) /\ proc[p].statusReqs = 1
    /\ cache["port"] # NoEntry

\* removeEphemeralPort rejected
RemoveFailed(s) == s.pc = "failed" /\ s.error = "Failed to delete ephemeral port"

\* C13: removeEphemeralPort fails exactly when the delete response carries a
\* zero or no success flag; a response with the flag set and a false epf
\* member lets it return normally
C13_RemoveFailsOnNonSuccess ==
  [][\A p \in Procs :
       (/\ proc[p].pc = "remove_post" /\ proc'[p].pc # "remove_post"
        /\ proc'[p].res # RequestError) =>
         /\ RemoveFailed(proc'[p]) <=> (proc'[p].res.success \in {"0", "absent"})
         /\ (proc'[p].res.success = "1" /\ ~proc'[p].res.epf) => proc'[p].deleted]_vars

\* requestMatchingEphemeralPort rejected
RequestFailed(s) ==
  s.pc = "failed" /\ s.error = "Failed to request matching ephemeral port"

\* C14: a create response with a zero success flag makes
\* requestMatchingEphemeralPort fail; it returns only on a response without a zero
\* flag that carries the epf member, and then the state it returns is
\* {epfExpires: start_ts, ports: [ext, int]} of that response: two ports and a
\* lease start, each one present
C14_RequestReturnsResponseState ==
  [][\A p \in Procs :
       (proc[p].pc = "request_post" /\ proc'[p].pc # "request_post") =>
         /\ proc'[p].pc \in {"done", "failed"}
         /\ proc'[p].pc = "failed" => RequestFailed(proc'[p])
         /\ (proc'[p].res # RequestError /\ proc'[p].res.success = "0")
              => RequestFailed(proc'[p])
         /\ proc'[p].pc = "done" <=>
              /\ proc'[p].res # RequestError
              /\ proc'[p].res.success # "0"
              /\ proc'[p].res.epf # NoEpf
         /\ proc'[p].pc = "done" =>
              /\ proc'[p].info.epfExpires = proc'[p].res.epf.start_ts
              /\ proc'[p].info.ports = <<proc'[p].res.epf.ext, proc'[p].res.epf.int>>
              /\ \A i \in 1..2 : proc'[p].info.ports[i] # Undefined]_vars

\* updatePort() returned the state of a create response without a success flag
C14_Witness ==
  \E p \in Procs :
    /\ proc[p].pc = "done" /\ proc[p].creates = 1
    /\ "success" \in DOMAIN proc[p].res /\ proc[p].res.success = "absent"
    /\ proc[p].info.ports = <<proc[p].res.epf.ext, proc[p].res.epf.int>>
    /\ proc[p].info.epfExpires = proc[p].res.epf.start_ts

\* the methods of one updatePort() call, in the order it calls them
OpRank(o) ==
  CASE o = "csrf" -> 1 [] o = "info" -> 2 [] o = "remove" -> 3
    [] o = "request" -> 4 [] OTHER -> 0

\* the request just answered failed: it was rejected or its page was not parsed,
\* or the endpoint answered with a zero success flag
FailureAnswer(r) ==
  \/ r \in {RequestError, Unparsable}
  \/ "success" \in DOMAIN r /\ r.success = "0"

\* C15: within one updatePort() call the status page, the delete endpoint and
\* the create endpoint are each requested at most once; a failure of any of them
\* makes updatePort() reject at once with that method's context; and none of
\* them is followed by a forced login: only the CSRF retrieval forces one
C15_NoRetries ==
  [][\A p \in Procs :
       /\ proc'[p].statusReqs <= 1 /\ proc'[p].deletes <= 1 /\ proc'[p].creates <= 1
       /\ proc'[p].forceLogin => proc'[p].op = "csrf"
       /\ (proc[p].pc \in {"info_get", "remove_post", "request_post"}
           /\ proc'[p].pc # proc[p].pc) =>
            /\ proc'[p].forced = proc[p].forced
            /\ proc'[p].acctReqs = proc[p].acctReqs
            /\ proc'[p].pc \in {"done", "failed"} \/ OpRank(proc'[p].op) > OpRank(proc[p].op)
            /\ FailureAnswer(proc'[p].res) =>
                 /\ proc'[p].pc = "failed"
                 /\ proc'[p].error =
                      (CASE proc[p].op = "info" -> "Failed to get port forwarding info"
                         [] proc[p].op = "remove" -> "Failed to delete ephemeral port"
                         [] proc[p].op = "request" ->
                              "Failed to request matching ephemeral port")]_vars

\* the delete request was rejected and updatePort() rejected with it, each
\* request sent once and no login forced
C15_Witness ==
  \E p \in Procs :
    /\ proc[p].pc = "failed" /\ proc[p].error = "Failed to delete ephemeral port"
    /\ proc[p].res = RequestError
    /\ proc[p].statusReqs = 1 /\ proc[p].deletes = 1 /\ proc[p].creates = 0
    /\ proc[p].forced = 0

(* ========================= claims about login ========================= *)
\* login() threw: its catch put its context before the message
LoginFailed(s) ==
  /\ s.pc = "failed"
  /\ Len(s.message) >= 2 /\ s.message[1] = "Failed to log into windscribe"

\* login() returned a cookie: getSession() resolved with it, or threw reading
\* the expiry the cookie does not have
LoginReturned(s) ==
  s.pc = "returned" \/ (s.pc = "failed" /\ s.message = <<"TypeError">>)

\* a cookie name that starts with the clearance marker cf_
ClearanceName(name) ==
  Len(name) >= 3 /\ name[1] = "c" /\ name[2] = "f" /\ name[3] = "_"

\* the answer r to the request awaited at pc is a failure of that step
StepFails(pc, r) ==
  \/ r = RequestError
  \/ /\ r # RequestError
     /\ CASE pc = "login_flare" ->
               r.status # "ok" \/ ~\E name \in r.cookies : ClearanceName(name)
          [] pc = "login_auth" -> r.errorCode # 0 \/ ~r.token
          [] pc = "login_captcha" -> ~r.solved
          [] pc = "login_post" -> r.status # 302 \/ "value" \notin DOMAIN r.setCookie

\* C17: login() takes its steps in this order only: clearance, auth token,
\* CAPTCHA when and only when the auth response carries one, login form; and an
\* answer that is a failure of its step (a rejected request, an auth response
\* without token, an unsolved CAPTCHA, ...) makes login() throw in that step, so
\* that no request of a later step is sent
C17_LoginStepsInOrder ==
  [][\A p \in Procs :
       /\ (proc'[p].pc = "login_flare" /\ proc[p].pc # "login_flare")
            => proc[p].pc = "gs_wait"
       /\ (proc'[p].pc = "login_auth" /\ proc[p].pc # "login_auth")
            => proc[p].pc = "login_flare"
       /\ (proc'[p].pc = "login_captcha" /\ proc[p].pc # "login_captcha")
            => (proc[p].pc = "login_auth" /\ proc[p].res.captcha)
       /\ (proc'[p].pc = "login_post" /\ proc[p].pc # "login_post")
            => \/ proc[p].pc = "login_auth" /\ ~proc[p].res.captcha
               \/ proc[p].pc = "login_captcha"
       /\ (proc[p].pc \in LoginPcs /\ proc'[p].pc # proc[p].pc) =>
            /\ proc[p].res # NoData
            /\ IF StepFails(proc[p].pc, proc[p].res)
               THEN LoginFailed(proc'[p])
               ELSE proc'[p].pc \in (LoginPcs \cup {"returned", "failed"})
                    /\ ~LoginFailed(proc'[p])]_vars

\* login() threw on an auth response without token
C17_Witness ==
  \E p \in Procs :
    /\ LoginFailed(proc[p])
    /\ proc[p].message = <<"Failed to log into windscribe",
                           "Failed to fetch auth token", "No token in auth response">>

\* C18: when the anti-bot solver answers with a status other than ok, or with
\* no cookie whose name starts with cf_, login() throws on that answer: the
\* auth-token request, the first one to the provider, is not sent
C18_NoClearanceNoRequest ==
  [][\A p \in Procs :
       (/\ proc[p].pc = "login_flare" /\ proc'[p].pc # "login_flare"
        /\ proc[p].res # RequestError
        /\ \/ proc[p].res.status # "ok"
           \/ \A name \in proc[p].res.cookies : ~ClearanceName(name))
       => (/\ LoginFailed(proc'[p])
           /\ proc'[p].message[2] \in
                {"FlareSolverr failed for GET /login",
                 "No Cloudflare clearance cookies found in FlareSolverr response"})]_vars

\* login() threw on an ok answer of the solver without clearance cookie
C18_Witness ==
  \E p \in Procs :
    /\ LoginFailed(proc[p])
    /\ proc[p].message[2] =
         "No Cloudflare clearance cookies found in FlareSolverr response"

\* C19: login() returns a cookie only on a 302 answer to the login form whose
\* Set-Cookie header carries ws_session_auth_hash, and it is that cookie; on a
\* 200 answer it always throws, and on a 302 answer without that cookie it throws
C19_CookieOnlyFrom302 ==
  [][\A p \in Procs :
       (/\ proc[p].pc = "login_post" /\ proc'[p].pc # "login_post"
        /\ proc[p].res # RequestError) =>
         /\ LoginReturned(proc'[p]) =>
              /\ proc[p].res.status = 302
              /\ "value" \in DOMAIN proc[p].res.setCookie
         /\ proc'[p].pc = "returned" =>
              proc'[p].sessionCookie = proc[p].res.setCookie.value
         /\ proc[p].res.status = 200 => LoginFailed(proc'[p])
         /\ (proc[p].res.status = 302 /\ "value" \notin DOMAIN proc[p].res.setCookie)
              => LoginFailed(proc'[p])]_vars

\* getSession() resolved with the cookie its login() returned
C19_Witness ==
  \E p \in Procs :
    /\ proc[p].pc = "returned" /\ proc[p].op = "login" /\ proc[p].gsLogin
    /\ proc[p].sessionCookie \in CookieValues

\* the marker text names the second factor: "2fa", in whatever letter case
TwoFactorText(text) ==
  \E i \in 1..(Len(text) - 2) :
    text[i] = "2" /\ text[i + 1] \in {"f", "F"} /\ text[i + 2] \in {"a", "A"}

\* C20: on a 200 answer with a marker text, login() throws the two-factor
\* error when the text names the second factor, and the generic login error
\* for any other text
C20_TwoFactorDistinguished ==
  [][\A p \in Procs :
       (/\ proc[p].pc = "login_post" /\ proc'[p].pc # "login_post"
        /\ proc[p].res # RequestError
        /\ proc[p].res.status = 200 /\ proc[p].res.text # <<>>) =>
         /\ LoginFailed(proc'[p])
         /\ proc'[p].message[2] =
              (IF TwoFactorText(proc[p].res.text)
               THEN "Windscribe 2FA required" ELSE "Windscribe login error")]_vars

\* login() threw the two-factor error
C20_Witness ==
  \E p \in Procs :
    /\ LoginFailed(proc[p]) /\ proc[p].message[2] = "Windscribe 2FA required"

(* ========================= claims about update() ======================= *)
\* update() has gone through its second try block after updatePort() rejected
\* while the cache held a live port
FellBack == pass.pc = "end" /\ pass.failed /\ pass.cached # NoEntry

\* the port the cache held when updatePort() rejected
CachedPort == ParseDigits(pass.cached.value)

\* some instant plus the delay
Delayed(t, delay) == \E i \in Instants : t = i + delay

\* the torrent client's port changes only to the port update() holds, a
\* Windscribe port
PortOnlySetToWindscribe ==
  client' # client => client' \in Ports /\ client' = pass.portInfo.port

\* C16 as stated: when updatePort() fails, update() schedules a delayed retry,
\* and if a cached port exists the torrent client ends the pass listening on
\* it; the torrent client's port is never cleared or set to a port that is
\* not a Windscribe port.
C16_FallsBackToCachedPort ==
  [][ /\ PortOnlySetToWindscribe
      /\ (pass.pc = "end" /\ pass.failed)' =>
            (Delayed(pass.nextRetry, WindscribeRetryDelay)
               \/ Delayed(pass.nextRetry, ClientRetryDelay))'
      /\ FellBack' => (client = CachedPort)' ]_vars

\* C16 amended: when updatePort() fails, update() schedules a delayed retry and
\* takes the cached port if one exists; unless a call to the torrent client
\* fails or the port does not take, in which case the retry is after the
\* client delay, the torrent client ends the pass listening on the cached
\* port, which was set if it differed; the torrent client's port is never
\* cleared or set to a port that is not a Windscribe port.
C16_FallsBackUnlessClientFails ==
  [][ /\ PortOnlySetToWindscribe
      /\ (pass.pc = "end" /\ pass.failed)' =>
            /\ (pass.outcome # "failed" => Delayed(pass.nextRetry, WindscribeRetryDelay))'
            /\ (pass.outcome = "failed" => Delayed(pass.nextRetry, ClientRetryDelay))'
      /\ FellBack' =>
            /\ (pass.portInfo.port = CachedPort)'
            /\ (pass.outcome \in {"matches", "updated", "failed"})'
            /\ (pass.outcome # "failed" => client = CachedPort)' ]_vars

\* updatePort() rejected, the cached port differed from the torrent client's
\* and the torrent client has taken it
C16_Witness ==
  FellBack /\ pass.outcome = "updated" /\ client = CachedPort

(* ===================== claims about the login form ===================== *)
\* the keys of a form
FormKeys(form) == {e[1] : e \in form}

\* what the form sends array a of key k as
FormArray(k, a) == {<<k, <<i - 1, a[i]>>>> : i \in 1..Len(a)}

\* the form carries exactly the solution sol: its offset and its trail
CarriesSolution(form, sol) ==
  /\ {e \in form : e[1] = "captcha_solution"} = {<<"captcha_solution", sol.offset>>}
  /\ {e \in form : e[1] = "captcha_trail[x]"} = FormArray("captcha_trail[x]", sol.trail.x)
  /\ {e \in form : e[1] = "captcha_trail[y]"} = FormArray("captcha_trail[y]", sol.trail.y)
  /\ Len(sol.trail.x) > 0 /\ Len(sol.trail.y) > 0

\* the form carries nothing of a CAPTCHA
CarriesNoSolution(form) ==
  FormKeys(form) \cap {"captcha_solution", "captcha_trail[x]", "captcha_trail[y]"} = {}

\* C21: the login form that is submitted contains a one-time code if and only
\* if a TOTP generator is configured, the code being the six digits generated
\* then; it is submitted without a CAPTCHA offset and trail when the auth-token
\* response embedded no challenge, and otherwise only once the challenge is
\* solved, with the offset and the trail of that solution
C21_FormCodeAndCaptcha ==
  [][\A p \in Procs :
       /\ (proc[p].pc = "login_auth" /\ proc'[p].pc = "login_captcha")
            => proc[p].res.captcha
       /\ (proc[p].pc # "login_post" /\ proc'[p].pc = "login_post") =>
            /\ ("code" \in FormKeys(proc'[p].loginForm)) <=> totp
            /\ totp => /\ <<"code", TotpGenerate(now)>> \in proc'[p].loginForm
                       /\ Len(TotpGenerate(now)) = 6
            /\ \/ /\ proc[p].pc = "login_auth" /\ ~proc[p].res.captcha
                  /\ CarriesNoSolution(proc'[p].loginForm)
               \/ /\ proc[p].pc = "login_captcha" /\ proc[p].res.solved
                  /\ CarriesSolution(proc'[p].loginForm, proc[p].res.solution)]_vars

\* a form with a one-time code and the solution of a challenge is with the provider
C21_Witness ==
  \E p \in Procs :
    /\ proc[p].pc = "login_post" /\ totp /\ proc[p].captcha
    /\ "code" \in FormKeys(proc[p].loginForm)
    /\ "captcha_trail[x]" \in FormKeys(proc[p].loginForm)

(* ==================== claims about the CSRF retrieval ================== *)
\* C22: on a 200 account page getMyAccountCsrfToken returns the issue time as
\* a number and the token, both as the page gives them, and rejects with its
\* own context when the page lacks either; it never goes on with one of the
\* two missing
C22_CsrfInfoComplete ==
  [][\A p \in Procs :
       /\ (proc'[p].csrfToken = Undefined) <=> (proc'[p].csrfTime = Undefined)
       /\ (proc[p].pc = "csrf_get" /\ proc'[p].pc # "csrf_get"
           /\ "csrf_time" \in DOMAIN proc'[p].res) =>
            IF proc'[p].res.csrf_time # <<>> /\ proc'[p].res.csrf_token # Undefined
            THEN /\ proc'[p].pc # "failed" /\ proc'[p].op = "info"
                 /\ proc'[p].csrfToken = proc'[p].res.csrf_token
                 /\ proc'[p].csrfTime = ParseDigits(proc'[p].res.csrf_time)
                 /\ proc'[p].csrfTime \in Nat \ {Undefined}
            ELSE /\ proc'[p].pc = "failed"
                 /\ proc'[p].error = "Failed to get csrf token from my account page"
                 /\ proc'[p].message = <<"TypeError">>]_vars

\* the CSRF pair of a 200 account page has been returned to updatePort()
C22_Witness ==
  \E p \in Procs :
    /\ proc[p].op = "info" /\ "csrf_time" \in DOMAIN proc[p].res
    /\ proc[p].csrfTime = 17 /\ proc[p].csrfToken \in CsrfTokens

\* solveCaptcha() has chosen a strategy and has the offset it found
Solved == solver.pc = "offset"
TheBackground == solver.captchaData.background
TheSlider == solver.captchaData.slider
TheTop == solver.captchaData.top

\* C23: solveCaptcha() uses one strategy per challenge: outline matching, and
\* its offset, when a piece image was sent that is not the background image;
\* cutout detection, and its offset, when no piece was sent or the piece is the
\* background image
C23_OneStrategy ==
  Solved =>
    /\ solver.strategy \in {"outline", "cutout"}
    /\ TheSlider \in Pieces =>
         /\ solver.strategy = "outline"
         /\ solver.offset = FindTargetOutline(TheBackground, TheSlider, TheTop)
    /\ (TheSlider \in {NoSlider, EmptySlider} \/ TheSlider = TheBackground) =>
         /\ solver.strategy = "cutout"
         /\ solver.offset = FindCutoutPosition(TheBackground, TheTop)

\* a challenge whose piece is its background was solved by cutout detection,
\* at an edge of the background
C23_Witness ==
  /\ Solved
  /\ TheSlider = TheBackground
  /\ solver.strategy = "cutout"
  /\ solver.offset = 40

\* the least column of the piece image that holds a pixel of the piece
LeftInset(slider) ==
  CHOOSE x \in 0..(slider.width - 1) :
    /\ \E y \in 0..(slider.height - 1) : Alpha(slider, x, y) > AlphaThreshold
    /\ \A z \in 0..(x - 1), y \in 0..(slider.height - 1) :
         Alpha(slider, z, y) <= AlphaThreshold

\* C24: when the outline strategy finds a winning pair of columns, the offset
\* is the left column of that pair less the left inset of the piece
C24_OffsetIsLeftColumnLessInset ==
  (Solved /\ solver.strategy = "outline"
     /\ EdgePairs(TheBackground, TheSlider, TheTop) # {}) =>
    solver.offset = BestPair(TheBackground, TheSlider, TheTop)[1] - LeftInset(TheSlider)

\* the outline at columns 120 and 195 and a piece of width 75 with an inset of
\* 5 gave the offset 115
C24_Witness ==
  /\ Solved
  /\ solver.strategy = "outline"
  /\ TheBackground = WideBackground
  /\ EdgePairs(TheBackground, TheSlider, TheTop) # {}
  /\ BestPair(TheBackground, TheSlider, TheTop) = <<120, 195>>
  /\ LeftInset(TheSlider) = 5
  /\ solver.offset = 115

\* the column the outline strategy settled on
ChosenColumn == solver.offset + MinX(TheSlider)

\* C25: of the pairs of candidate columns about a piece width apart the outline
\* strategy takes one of the highest combined score; when there is no such
\* pair it takes a candidate column that no other candidate is brighter than
C25_BestPairElseBrightest ==
  (Solved /\ solver.strategy = "outline") =>
    LET pairs == EdgePairs(TheBackground, TheSlider, TheTop)
        columns == SignificantColumns(TheBackground, TheSlider, TheTop)
    IN /\ pairs # {} =>
            \E pr \in pairs :
              /\ ChosenColumn = pr[1]
              /\ \A qr \in pairs :
                   PairScore(TheBackground, TheSlider, TheTop, pr)
                     >= PairScore(TheBackground, TheSlider, TheTop, qr)
       /\ (pairs = {} /\ columns # {}) =>
            /\ ChosenColumn \in columns
            /\ \A z \in columns :
                 BrightPixels(TheBackground, TheSlider, TheTop, ChosenColumn)
                   >= BrightPixels(TheBackground, TheSlider, TheTop, z)

\* the smoothed gradient energy at column x, columns beyond the image adding none
Energy(bg, top, x) ==
  LET E(z) == IF z > bg.width - 1 THEN 0 ELSE EdgeStrength(bg, top, z)
  IN E(x) + E(x + 1) + E(x + 2)

\* the interior region: the whole columns from 0.3 of the width up to, not
\* including, 0.9 of the width
Interior(bg) ==
  {x \in 0..(bg.width - 1) : x >= (3 * bg.width) \div 10 /\ x < (9 * bg.width) \div 10}

\* C26: the cutout strategy returns a column of the interior region at which
\* the smoothed gradient energy is the greatest of that region
C26_MaximisesEnergy ==
  (Solved /\ solver.strategy = "cutout") =>
    /\ solver.offset \in Interior(TheBackground)
    /\ \A x \in Interior(TheBackground) :
         Energy(TheBackground, TheTop, solver.offset) >= Energy(TheBackground, TheTop, x)

\* the cutout strategy returned a column away from the middle although columns
\* outside the interior region have edges too
C26_Witness ==
  /\ Solved
  /\ solver.strategy = "cutout"
  /\ <<2, 0>> \in TheBackground.lit
  /\ <<75, 0>> \in TheBackground.lit
  /\ solver.offset = 68
  /\ Energy(TheBackground, TheTop, solver.offset) > 0

\* generateMouseTrail() is in its loop or has returned
InTrail == solver.pc \in {"trail", "returned"}
TrailReturned == solver.pc = "returned"

\* the whole eighths of a target offset
Eighths(T) == IF T < 0 THEN 0 ELSE CHOOSE q \in 0..T : 8 * q <= T /\ T < 8 * (q + 1)

\* C27: for every target offset T the trail that is returned has as many
\* samples as the whole eighths of T, and 10 if that is less; the x sequence
\* and the y sequence have that length, and at no time differ in length
C27_SampleCount ==
  InTrail =>
    /\ solver.x.length = solver.y.length
    /\ TrailReturned =>
         solver.x.length = (IF Eighths(solver.targetOffset) > 10
                            THEN Eighths(solver.targetOffset) ELSE 10)

\* the trail of the offset 88 has been returned with 11 samples
C27_Witness ==
  /\ TrailReturned
  /\ solver.targetOffset = 88
  /\ solver.x.length = 11
  /\ solver.y.length = 11

\* C28: for every target offset T, whatever the jitter, the last sample of
\* the trail that is returned is (T, 0)
C28_FinalSample ==
  TrailReturned =>
    /\ solver.x.last = solver.targetOffset
    /\ solver.y.last = 0

\* the trail of the offset 80 has been returned, its last sample on the target
C28_Witness ==
  /\ TrailReturned
  /\ solver.targetOffset = 80
  /\ solver.x.last = 80
  /\ solver.y.last = 0
  /\ solver.first < 80

\* C29 as stated: for every target offset T the solver produces, every x of
\* the trail lies within 0..T
C29_XWithinZeroAndTarget ==
  (InTrail /\ solver.x.length > 0) =>
    /\ solver.x.last \in 0..solver.targetOffset
    /\ solver.first \in 0..solver.targetOffset

\* C29: every x of the trail lies within 0..T when the target offset T the
\* solver produced is not negative; when it is negative, every x the loop
\* pushes is 0 and the last x of the returned trail is T
C29_XWithinZeroAndTargetUnlessNegative ==
  (InTrail /\ solver.x.length > 0) =>
    /\ solver.targetOffset >= 0 =>
         /\ solver.x.last \in 0..solver.targetOffset
         /\ solver.first \in 0..solver.targetOffset
    /\ solver.targetOffset < 0 =>
         /\ solver.first = 0
         /\ solver.x.last = (IF TrailReturned THEN solver.targetOffset ELSE 0)

\* the solver produced a positive offset and a sample before the last is at
\* the offset, where it is held
C29_Witness ==
  /\ solver.pc = "trail"
  /\ solver.targetOffset > 0
  /\ solver.i > 0
  /\ solver.i < solver.numPoints
  /\ solver.x.last = solver.targetOffset

\* C30: for every target offset the x of the first sample is within the
\* jitter bound of 0, taken as 2 pixels
C30_FirstSampleNearZero ==
  (InTrail /\ solver.x.length > 0) => solver.first \in -2..2

(* ========================= claims about getPort ======================= *)
\* C40: once updatePort() has returned {port, expires}, and before it is called
\* again, getPort() gives that port and that expiry at any instant before
\* expires and null at any instant after it; with nothing cached it gives null
C40_GetPortGivesReturnedPort ==
  /\ \A p \in Procs :
       proc[p].pc = "done" =>
         /\ now < proc[p].ret.expires => GetPort(cache, now) = proc[p].ret
         /\ now > proc[p].ret.expires => GetPort(cache, now) = NullPort
  /\ cache["port"] = NoEntry => GetPort(cache, now) = NullPort

\* updatePort() has returned a port whose expiry has passed since: the entry is
\* still in the store and getPort() gives null
C40_Witness ==
  \E p \in Procs :
    /\ proc[p].pc = "done"
    /\ now > proc[p].ret.expires
    /\ cache["port"] # NoEntry
    /\ ParseDigits(cache["port"].value) = proc[p].ret.port
    /\ GetPort(cache, now) = NullPort

(* ===================== claims about the cached port =================== *)
\* the step is the answer to a delete request sent on two unequal ports, and
\* the answer says the lease was deleted
DeleteSucceeded(p) ==
  /\ proc[p].pc = "remove_post"
  /\ StatusMismatched(proc[p])
  /\ proc'[p].res # RequestError
  /\ proc'[p].res.success = "1"

\* C37: updatePort() deletes the cached port only on two unequal ports and
\* only once the delete request has succeeded; at every other step, those of
\* the failing paths included, the entry of the cached port stays as it is,
\* but for the port stored as updatePort() returns
C37_PortDeletedOnlyAfterDelete ==
  [][cache'["port"] # cache["port"] =>
       \E p \in Procs :
         \/ proc[p].pc # "done" /\ proc'[p].pc = "done" /\ cache'["port"] # NoEntry
         \/ DeleteSucceeded(p) /\ cache'["port"] = NoEntry]_vars

(* ===================== claims about a failed login ==================== *)
\* caller p is in the queue of the session lock
Queued(q, p) == \E i \in 1..Len(q) : q[i] = p

\* C38: when login() fails inside getSession(), forced or not, the call
\* rejects to its caller, the session lock is released and the store holds no
\* session cookie; the caller next in the queue then holds the lock, and a
\* getSession() call that finds no cookie starts a login() of its own
C38_FailedLoginFreesLock ==
  [][\A p \in Procs :
       /\ (InLogin(p) /\ ~InLogin(p)' /\ proc'[p].pc # "returned") =>
            /\ proc'[p].pc = "failed"
            /\ ~Queued(lockQueue', p)
            /\ CacheGet(cache', "sessionCookie", now') = Undefined
            /\ lockQueue' # <<>> =>
                 /\ proc'[Head(lockQueue')].pc = "gs_wait"
                 /\ HoldsLock(lockQueue', Head(lockQueue'))
       /\ (proc[p].pc = "gs_wait" /\ proc'[p].pc # "gs_wait"
           /\ CacheGet(cache', "sessionCookie", now') = Undefined) =>
            proc'[p].pc = "login_flare"]_vars

\* a login() has failed and the caller that waited behind it is in a login()
\* of its own
C38_Witness ==
  \E p, q \in Procs :
    /\ proc[p].pc = "failed"
    /\ InLogin(q)
    /\ HoldsLock(lockQueue, q)
    /\ cache["sessionCookie"] = NoEntry

(* ================= claims about the requests of a pass ================ *)
\* caller p has a request out that follows the account-page request
RequestOut(s) == s.pc \in {"info_get", "remove_post", "request_post"}

\* the pass holds the CSRF pair: from the answer of the account page to its end
PairHeld(s) == s.csrfToken # Undefined

\* the value of the session cookie in the store, expired or not
StoredCookie(c) ==
  IF c["sessionCookie"] = NoEntry THEN Undefined ELSE c["sessionCookie"].value

\* C39 as stated: the status-page request and every delete or create request
\* of a pass carry the session cookie the account-page request carried that
\* gave the CSRF pair: every request carries the cookie in the store, and that
\* cookie is the same from the answer of the account page to the end of the pass
C39_SameCookieThroughPass ==
  [][\A p \in Procs :
       /\ (proc[p].pc = "csrf_get" \/ RequestOut(proc[p])) =>
            proc[p].sessionCookie = StoredCookie(cache)
       /\ (PairHeld(proc[p]) /\ PairHeld(proc'[p])) =>
            StoredCookie(cache') = StoredCookie(cache)]_vars

(* ================= claims about the result of update() ================ *)
\* C34: update() resolves with nextRun or nextRetry set, so the branch run()
\* takes on its result is the retry or the normal one, each of which arms a
\* timer, never the 'Invalid state' exit
C34_UpdateGivesNextRunOrRetry ==
  pass.pc = "end" =>
    /\ pass.nextRun # NullDate \/ pass.nextRetry # NullDate
    /\ RunBranch(pass.nextRun, pass.nextRetry) \in {"retry", "normal"}
    /\ pass.failed => pass.nextRetry # NullDate
    /\ ~pass.failed => pass.nextRun # NullDate

\* update() is about to return after updatePort() rejected with no port cached
C34_Witness ==
  /\ pass.pc = "end"
  /\ pass.failed
  /\ pass.portInfo = NullPort
  /\ pass.nextRun = NullDate
  /\ RunBranch(pass.nextRun, pass.nextRetry) = "retry"

\* C35: when update() finishes with no retry requested, updatePort() resolved
\* in that pass and the port last read from the torrent client, which is the
\* port the client listens on, is the port updatePort() returned
C35_NoRetryMeansClientHasPort ==
  (pass.pc = "end" /\ pass.nextRetry = NullDate) =>
    /\ ~pass.failed
    /\ pass.portInfo # NullPort
    /\ pass.currentPort = pass.portInfo.port
    /\ client = pass.portInfo.port
    /\ cache["port"] # NoEntry /\ ParseDigits(cache["port"].value) = pass.portInfo.port

\* update() is about to return with no retry after it changed the client's port
C35_Witness ==
  /\ pass.pc = "end"
  /\ pass.nextRetry = NullDate
  /\ pass.outcome = "updated"
  /\ client = pass.portInfo.port
  /\ client # TorrentPort

SecondRun == solver.history # NoData /\ solver.history.runs = 1

Resumed == sched.pc = "live" /\ sched'.updates \subseteq sched.updates
             /\ sched'.updates # sched.updates

\* C33: on the result of update() run() does not exit and arms one timer, kept
\* in timeoutId: if either phase failed, a retry timer, due after the client
\* retry delay when the client phase failed and after the windscribe retry delay
\* otherwise, with the cron task stopped; if neither failed, a normal-run
\* timer due at the port's expiry plus the extra delay, with the cron task started
C33_RetryBeforeNormalRun ==
  [][Resumed =>
       /\ sched'.pc = "live"
       /\ Cardinality(sched'.timers \ sched.timers) = 1
       /\ \A tm \in sched'.timers \ sched.timers :
            /\ tm.id = sched'.timeoutId
            /\ IF sched'.settled.windscribeFailed \/ sched'.settled.clientFailed
               THEN /\ tm.trigger = "retry"
                    /\ sched'.cron \in {"none", "stopped"}
                    /\ tm.due = now + (IF sched'.settled.clientFailed
                                       THEN ClientRetryDelay ELSE WindscribeRetryDelay)
               ELSE /\ tm.trigger = "normal"
                    /\ sched'.cron \in {"none", "started"}
                    /\ tm.due = now + sched'.settled.days * SecondsPerDay * MsPerSecond
                                  + WindscribeExtraDelay]_vars

\* after a run that started the cron task, a run whose phases both failed has
\* stopped it and armed a retry timer due after the client retry delay
C33_Witness ==
  /\ sched.pc = "live"
  /\ sched.armed >= 2
  /\ sched.cron = "stopped"
  /\ sched.settled # NoData
  /\ sched.settled.windscribeFailed /\ sched.settled.clientFailed
  /\ \E tm \in sched.timers :
       /\ tm.id = sched.timeoutId
       /\ tm.trigger = "retry"
       /\ tm.due = now + ClientRetryDelay

\* C36: at most one update() pass is in progress, at most one timer is
\* pending, and a pending timer is the one timeoutId names, which the next
\* run() clears
C36_OnePassOneTimer ==
  sched.pc = "live" =>
    /\ Cardinality(sched.updates) <= 1
    /\ Cardinality(sched.timers) <= 1
    /\ \A tm \in sched.timers : tm.id = sched.timeoutId
====
